---- MODULE Spec2Model ----
(***************************************************************************)
(* Location forest with cached paths (inventory/models.py, Location) and   *)
(* the group-scoped access functions (inventory/access.py), the asset and  *)
(* interface write endpoints (inventory/api_views.py), the default port   *)
(* and interface of a new computer, the IP addresses of an interface, the  *)
(* guest requests and their decisions (inventory/models.py,                *)
(* inventory/serializers.py) and the task runs (inventory/tasks.py).       *)
(*                                                                         *)
(* Strings are sequences of one-character strings, so that slugify and the *)
(* "/" join of path_cache are computed, not assumed.  A location id is its *)
(* index in locs (ids are handed out by the table's auto-increment and     *)
(* locations are never deleted through the API); parent 0 is NULL.         *)
(***************************************************************************)
EXTENDS Integers, Sequences, FiniteSets, TLC

VARIABLES
    locs,   \* the Location table: locs[id] = [parent, slug, name, path_cache]
    last,   \* the last write request and its outcome
    sv,     \* the Location.save() call in progress, statement by statement
    members,    \* OrganizationalGroup.members: group -> set of user ids
    admins,     \* OrganizationalGroup.admins: group -> set of user ids
    assets,     \* the Asset table: assets[id] =
                \*     [owner, groups, asset_type, status, location]
    ports,      \* the Port table: ports[id] = [asset, name, port_kind, active]
    ifaces,     \* the NetworkInterface table: ifaces[id] =
                \*     [asset, port, identifier, mac_address, active]
    locGroups,  \* Location.groups: location id -> set of groups
    call,       \* the last call of an access function and what it returned
    ips,        \* the IPAddress table: ips[id] =
                \*     [network, address, assigned_interface, active]
    guests,     \* the GuestDevice table: guests[id] = [sponsor, approval_status,
                \*     enabled, approved_by, approved_at, rejected_reason]
    runs,       \* the TaskRun table: runs[id] =
                \*     [task_name, status, finished_at, result_data]
    inflight    \* the requests and worker jobs that have started and not ended

access == <<members, admins, assets, ports, ifaces, locGroups, call>>

\* The IPAddress, GuestDevice and TaskRun tables and what is in flight.
records == <<ips, guests, runs, inflight>>

vars == <<locs, last, sv, members, admins, assets, ports, ifaces, locGroups, call,
          ips, guests, runs, inflight>>

\* ------------------------------------------------------------------ bounds
NumLocs == 3
NumUsers == 1
NumGroups == 2
NumAssets == 2
NumRows == 2

\* ------------------------------------------------------------------ inputs
NULL == 0
SlugInputs == {<<>>, <<"a">>, <<"b">>}
NameInputs == {<<"A">>, <<"!">>}
UserIds == 1..NumUsers
Groups == 1..NumGroups

\* ------------------------------------------------------------------ strings
Lower(c) == IF c = "A" THEN "a" ELSE IF c = "B" THEN "b" ELSE c

IsSlugChar(c) == c \in {"a", "b", "-", "_"}

RECURSIVE slugify(_)
slugify(s) ==
    IF s = <<>> THEN <<>>
    ELSE LET c == Lower(Head(s))
         IN  (IF IsSlugChar(c) THEN <<c>> ELSE <<>>) \o slugify(Tail(s))

CharCode(c) ==
    CASE c = "!" -> 33 [] c = "-" -> 45 [] c = "/" -> 47 [] c = "A" -> 65
      [] c = "B" -> 66 [] c = "_" -> 95 [] c = "a" -> 97 [] c = "b" -> 98
      [] OTHER -> 0

RECURSIVE LexLess(_, _)
LexLess(s, t) ==
    IF t = <<>> THEN FALSE
    ELSE IF s = <<>> THEN TRUE
    ELSE IF Head(s) # Head(t) THEN CharCode(Head(s)) < CharCode(Head(t))
    ELSE LexLess(Tail(s), Tail(t))

JoinPath(parent_path, slug) == parent_path \o <<"/">> \o slug

\* ------------------------------------------------------------------ forest
Ids(db) == 1..Len(db)

\* Location.ancestor_chain: ids from the root down to id.  fuel bounds the
\* walk so that the operator is defined on any table.
RECURSIVE ChainUp(_, _, _)
ChainUp(db, id, fuel) ==
    IF id = NULL \/ fuel = 0 THEN <<>>
    ELSE ChainUp(db, db[id].parent, fuel - 1) \o <<id>>

ancestor_chain(db, id) == ChainUp(db, id, Len(db) + 1)

RECURSIVE JoinSlugs(_, _)
JoinSlugs(db, chain) ==
    IF chain = <<>> THEN <<>>
    ELSE IF Len(chain) = 1 THEN db[chain[1]].slug
    ELSE JoinPath(JoinSlugs(db, SubSeq(chain, 1, Len(chain) - 1)),
                  db[chain[Len(chain)]].slug)

\* Location.path
path(db, id) ==
    IF db[id].path_cache # <<>> THEN db[id].path_cache
    ELSE JoinSlugs(db, ancestor_chain(db, id))

\* A clean() that looks at the proposed parent only, not at its ancestors.
CleanWalkHits_ParentOnly(db, selfid, cur, fuel) ==
    cur # NULL /\ selfid # NULL /\ cur = selfid

\* The while loop of Location.clean: TRUE iff the walk from cur meets selfid.
RECURSIVE CleanWalkHits(_, _, _, _)
CleanWalkHits(db, selfid, cur, fuel) ==
    IF cur = NULL \/ fuel = 0 THEN FALSE
    ELSE IF selfid # NULL /\ cur = selfid THEN TRUE
    ELSE CleanWalkHits(db, selfid, db[cur].parent, fuel - 1)

\* Location.clean: the field the ValidationError is raised on, if any.
\* inst is the instance [parent, slug, name]; id is NULL for a new one.
CleanedSlug(inst) == IF inst.slug = <<>> THEN slugify(inst.name) ELSE inst.slug

\* A clean() without the hierarchy checks.
clean_SlugOnly(db, id, inst) ==
    IF CleanedSlug(inst) = <<>> THEN {"slug"} ELSE {}

clean(db, id, inst) ==
    IF CleanedSlug(inst) = <<>> THEN {"slug"}
    ELSE IF inst.parent # NULL /\ inst.parent = id THEN {"parent"}
    ELSE IF CleanWalkHits(db, id, inst.parent, Len(db) + 1) THEN {"parent"}
    ELSE {}

\* Model.clean_fields: slug and name are blank=False.
clean_fields(inst) ==
    (IF inst.slug = <<>> THEN {"slug"} ELSE {})
        \cup (IF inst.name = <<>> THEN {"name"} ELSE {})

\* UniqueConstraint.validate for (parent, field): skipped when one of its
\* fields already failed, and when parent is NULL (NULL # NULL in SQL).
UniqueViolated(db, id, inst, field, value, exclude) ==
    /\ "parent" \notin exclude
    /\ field \notin exclude
    /\ inst.parent # NULL
    /\ \E o \in Ids(db) :
          /\ o # id
          /\ db[o].parent = inst.parent
          /\ db[o][field] = value

\* Model.full_clean: the keys of the error dict (empty: accepted).
full_clean(db, id, inst) ==
    LET e1 == clean_fields(inst) \cup clean(db, id, inst)
        u  == UniqueViolated(db, id, inst, "name", inst.name, e1)
                \/ UniqueViolated(db, id, inst, "slug", CleanedSlug(inst), e1)
    IN  e1 \cup (IF u THEN {"__all__"} ELSE {})

\* A child query that selects every location that has a parent.
ChildSet_AnyParent(db, id) == {c \in Ids(db) : db[c].parent # NULL}

\* list(Location.objects.filter(parent_id=id)) under Meta.ordering (name, id)
ChildSet(db, id) == {c \in Ids(db) : db[c].parent = id}

Before(db, x, y) ==
    \/ LexLess(db[x].name, db[y].name)
    \/ (db[x].name = db[y].name /\ x < y)

RECURSIVE SortIds(_, _)
SortIds(db, S) ==
    IF S = {} THEN <<>>
    ELSE LET m == CHOOSE x \in S : \A y \in S \ {x} : Before(db, x, y)
         IN  <<m>> \o SortIds(db, S \ {m})

Children(db, id) == SortIds(db, ChildSet(db, id))

\* A path computed from the location's own cached path instead of its
\* parent's.
_compute_path_cache_OwnPath(db, id) ==
    IF db[id].parent = NULL THEN db[id].slug
    ELSE JoinPath(db[id].path_cache, db[id].slug)

\* Location._compute_path_cache
_compute_path_cache(db, id) ==
    IF db[id].parent = NULL THEN db[id].slug
    ELSE LET parent_path == db[db[id].parent].path_cache
         IN  IF parent_path # <<>> THEN JoinPath(parent_path, db[id].slug)
             ELSE JoinPath(path(db, db[id].parent), db[id].slug)

\* A cascade that visits the children and writes nothing.
CascadeDb_NoWrite(db, stack) == db

\* One iteration of the for loop of Location._rebuild_descendant_paths.
\* stack holds one frame per active call: the caller's in-memory path_cache
\* and the children it has still to visit.
CascadeDb(db, stack) ==
    LET top   == stack[Len(stack)]
        child == Head(top.kids)
        new_path == IF top.path # <<>> THEN JoinPath(top.path, db[child].slug)
                    ELSE db[child].slug
    IN  IF top.kids = <<>> THEN db
        ELSE IF db[child].path_cache # new_path
             THEN [db EXCEPT ![child].path_cache = new_path]
             ELSE db

CascadeStack(db, stack) ==
    LET top   == stack[Len(stack)]
        rest  == SubSeq(stack, 1, Len(stack) - 1)
        child == Head(top.kids)
        new_path == IF top.path # <<>> THEN JoinPath(top.path, db[child].slug)
                    ELSE db[child].slug
    IN  IF top.kids = <<>> THEN rest
        ELSE rest \o << [top EXCEPT !.kids = Tail(top.kids)],
                        [path |-> new_path, kids |-> Children(db, child)] >>

\* Location._rebuild_descendant_paths, run to completion.  The recursion is
\* one call deep per tree level, so it outgrows the table only when the
\* parent relation has a cycle; the interpreter's recursion limit then ends
\* it with a RecursionError and the rows written so far stay written
\* (autocommit).
RecursionExceeded(db, stack) == Len(stack) > Len(db) + 1

RECURSIVE RunCascade(_, _)
RunCascade(db, stack) ==
    IF stack = <<>> THEN [db |-> db, raised |-> FALSE]
    ELSE IF RecursionExceeded(db, stack) THEN [db |-> db, raised |-> TRUE]
    ELSE RunCascade(CascadeDb(db, stack), CascadeStack(db, stack))

_rebuild_descendant_paths(db, id, self_path) ==
    RunCascade(db, << [path |-> self_path, kids |-> Children(db, id)] >>)

\* super().save(): the row as the instance holds it.  A new instance has
\* path_cache "" (the field default); a loaded one carries the stored value.
WriteRow(db, id, inst) ==
    IF id = NULL
    THEN Append(db, [parent |-> inst.parent, slug |-> inst.slug,
                     name |-> inst.name, path_cache |-> <<>>])
    ELSE [db EXCEPT ![id] = [parent |-> inst.parent, slug |-> inst.slug,
                             name |-> inst.name,
                             path_cache |-> db[id].path_cache]]

\* Location.save: the table afterwards, and whether the call raised.
save(db, id, inst) ==
    LET pk   == IF id = NULL THEN Len(db) + 1 ELSE id
        old_parent_id == IF id = NULL THEN NULL ELSE db[id].parent
        old_slug == IF id = NULL THEN <<"None">> ELSE db[id].slug
        db1  == WriteRow(db, id, inst)
        new_path == _compute_path_cache(db1, pk)
        path_changed == new_path # db1[pk].path_cache
        db2  == IF path_changed
                THEN [db1 EXCEPT ![pk].path_cache = new_path] ELSE db1
    IN  IF path_changed \/ old_parent_id # inst.parent \/ old_slug # inst.slug
        THEN _rebuild_descendant_paths(db2, pk, new_path)
        ELSE [db |-> db2, raised |-> FALSE]

\* The instance after full_clean: clean() fills an empty slug from the name.
Cleaned(inst) == [inst EXCEPT !.slug = CleanedSlug(inst)]

\* ------------------------------------------------------------------ access
\* A user as the access functions read it.  AnonymousUser has id None and
\* both flags false; the functions test is_authenticated before anything
\* else, so unauthenticated users are enumerated with every id and flag.
Users ==
    {u \in [id : {NULL} \cup UserIds, is_authenticated : BOOLEAN,
            is_superuser : BOOLEAN] : u.is_authenticated => u.id # NULL}

\* user.asset_admin_groups
asset_admin_groups(u) == {g \in Groups : u.id \in admins[g]}

\* The groups of a user, counting only those the user is a member of.
_group_ids_for_user_MembersOnly(u) ==
    IF ~u.is_authenticated THEN {}
    ELSE {g \in Groups : u.id \in members[g]}

_group_ids_for_user(u) ==
    IF ~u.is_authenticated THEN {}
    ELSE {g \in Groups : u.id \in members[g] \/ u.id \in admins[g]}

\* The while loop of _expand_descendant_location_ids
RECURSIVE DescendantLoop(_, _)
DescendantLoop(all_ids, frontier) ==
    IF frontier = {} THEN all_ids
    ELSE LET child_ids == {c \in Ids(locs) : locs[c].parent \in frontier}
             new_ids == child_ids \ all_ids
         IN  IF new_ids = {} THEN all_ids
             ELSE DescendantLoop(all_ids \cup new_ids, new_ids)

\* A downward expansion that stops at the children of the seed.
_expand_descendant_location_ids_ChildrenOnly(seed_ids) ==
    seed_ids \cup {c \in Ids(locs) : locs[c].parent \in seed_ids}

_expand_descendant_location_ids(seed_ids) == DescendantLoop(seed_ids, seed_ids)

\* Location.objects.filter(id__in=ids).exclude(parent_id__isnull=True)
\*     .values_list("parent_id")
ParentIds(ids) ==
    {locs[x].parent : x \in {y \in Ids(locs) : y \in ids /\ locs[y].parent # NULL}}

\* The while loop of _expand_ancestor_location_ids
RECURSIVE AncestorLoop(_, _)
AncestorLoop(all_ids, frontier) ==
    IF frontier = {} THEN all_ids
    ELSE LET new_ids == frontier \ all_ids
         IN  IF new_ids = {} THEN all_ids
             ELSE AncestorLoop(all_ids \cup new_ids, ParentIds(new_ids))

\* An upward expansion that stops at the parents of the seed.
_expand_ancestor_location_ids_ParentsOnly(seed_ids) == ParentIds(seed_ids)

_expand_ancestor_location_ids(seed_ids) == AncestorLoop({}, ParentIds(seed_ids))

assignable_location_ids_for_user(u) ==
    IF ~u.is_authenticated THEN {}
    ELSE IF u.is_superuser THEN Ids(locs)
    ELSE LET group_ids == _group_ids_for_user(u)
             direct_ids == {x \in Ids(locs) : locGroups[x] \cap group_ids # {}}
         IN  IF group_ids = {} THEN {}
             ELSE IF direct_ids = {} THEN {}
             ELSE _expand_descendant_location_ids(direct_ids)

visible_location_ids_for_user(u) ==
    IF ~u.is_authenticated THEN {}
    ELSE IF u.is_superuser THEN Ids(locs)
    ELSE LET assignable_ids == assignable_location_ids_for_user(u)
         IN  IF assignable_ids = {} THEN {}
             ELSE assignable_ids \cup _expand_ancestor_location_ids(assignable_ids)

AssetIds == 1..Len(assets)

\* An asset list that tests is_superuser before is_authenticated.
visible_assets_for_user_SuperuserFirst(u) ==
    IF u.is_superuser THEN AssetIds
    ELSE IF ~u.is_authenticated THEN {}
    ELSE {a \in AssetIds :
             \/ assets[a].owner = u.id
             \/ \E g \in assets[a].groups : u.id \in admins[g]}

\* An asset list that also shows the assets of the groups the user is a
\* plain member of.
visible_assets_for_user_MemberOrAdmin(u) ==
    IF ~u.is_authenticated THEN {}
    ELSE IF u.is_superuser THEN AssetIds
    ELSE {a \in AssetIds :
             \/ assets[a].owner = u.id
             \/ \E g \in assets[a].groups :
                   u.id \in members[g] \/ u.id \in admins[g]}

\* The ids of the rows of visible_assets_for_user(user)
visible_assets_for_user(u) ==
    IF ~u.is_authenticated THEN {}
    ELSE IF u.is_superuser THEN AssetIds
    ELSE {a \in AssetIds :
             \/ assets[a].owner = u.id
             \/ \E g \in assets[a].groups : u.id \in admins[g]}

\* A view check that looks at the groups the user is a member of, not at
\* those the user administers.
can_view_asset_MemberGroups(u, a) ==
    IF ~u.is_authenticated THEN FALSE
    ELSE IF u.is_superuser THEN TRUE
    ELSE \/ assets[a].owner = u.id
         \/ \E g \in assets[a].groups : u.id \in members[g]

\* A view check that forgets the owner.
can_view_asset_NoOwner(u, a) ==
    IF ~u.is_authenticated THEN FALSE
    ELSE IF u.is_superuser THEN TRUE
    ELSE assets[a].groups \cap asset_admin_groups(u) # {}

can_view_asset(u, a) ==
    IF ~u.is_authenticated THEN FALSE
    ELSE IF u.is_superuser THEN TRUE
    ELSE \/ assets[a].owner = u.id
         \/ assets[a].groups \cap asset_admin_groups(u) # {}

\* An edit check without the superuser branch.
can_edit_asset_NoSuperuser(u, a) ==
    IF ~u.is_authenticated THEN FALSE
    ELSE assets[a].groups \cap asset_admin_groups(u) # {}

\* An edit check that lets the owner edit.
can_edit_asset_OwnerToo(u, a) ==
    IF ~u.is_authenticated THEN FALSE
    ELSE IF u.is_superuser THEN TRUE
    ELSE \/ assets[a].owner = u.id
         \/ assets[a].groups \cap asset_admin_groups(u) # {}

can_edit_asset(u, a) ==
    IF ~u.is_authenticated THEN FALSE
    ELSE IF u.is_superuser THEN TRUE
    ELSE assets[a].groups \cap asset_admin_groups(u) # {}

\* The ids of the rows of Asset.objects.visible_to(user): the join on
\* groups__members or groups__admins, made distinct.
visible_to(u) ==
    IF ~u.is_authenticated THEN {}
    ELSE IF u.is_superuser THEN AssetIds
    ELSE {a \in AssetIds :
             \E g \in assets[a].groups :
                u.id \in members[g] \/ u.id \in admins[g]}

\* The ids of the rows of Asset.objects.editable_by(user)
editable_by(u) ==
    IF ~u.is_authenticated THEN {}
    ELSE IF u.is_superuser THEN AssetIds
    ELSE {a \in AssetIds : \E g \in assets[a].groups : u.id \in admins[g]}

\* ------------------------------------------------------------------ requests
\* last.noslug: the request had no slug and its name slugifies to nothing.
\* last.moved: an accepted update changed the parent or the slug.
NoRequest == [op |-> "none", id |-> NULL, parent |-> NULL, errors |-> {},
              noslug |-> FALSE, moved |-> FALSE]

Idle == [pc |-> "idle"]

NoCall == [fn |-> "none"]

\* A fresh database: no location, no asset, the groups without users.
Init ==
    /\ locs = <<>>
    /\ last = NoRequest
    /\ sv = Idle
    /\ members = [g \in Groups |-> {}]
    /\ admins = [g \in Groups |-> {}]
    /\ assets = <<>>
    /\ ports = <<>>
    /\ ifaces = <<>>
    /\ locGroups = <<>>
    /\ call = NoCall
    /\ ips = <<>>
    /\ guests = <<>>
    /\ runs = <<>>
    /\ inflight = <<>>

Outcome(op, id, inst, errs, moved) ==
    [op |-> op, id |-> id, parent |-> inst.parent, errors |-> errs,
     noslug |-> (CleanedSlug(inst) = <<>>), moved |-> moved]

Moved(db, id, inst) ==
    db[id].parent # inst.parent \/ db[id].slug # CleanedSlug(inst)

RaisedErrors(r) == IF r.raised THEN {"RecursionError"} ELSE {}

\* LocationWriteSerializer.create, for a request without a "groups" key:
\* the new location has no group.
CreateLocation(parent, slug, name) ==
    LET inst == [parent |-> parent, slug |-> slug, name |-> name]
        errs == full_clean(locs, NULL, inst)
        r    == save(locs, NULL, Cleaned(inst))
    IN  /\ Len(locs) < NumLocs
        /\ sv = Idle
        /\ IF errs = {}
           THEN /\ locs' = r.db
                /\ last' = Outcome("create", Len(locs) + 1, inst,
                                   RaisedErrors(r), TRUE)
           ELSE /\ locs' = locs
                /\ last' = Outcome("create", NULL, inst, errs, FALSE)
        /\ locGroups' = [x \in Ids(locs') |->
                            IF x \in Ids(locs) THEN locGroups[x] ELSE {}]
        /\ UNCHANGED <<sv, members, admins, assets, ports, ifaces, call, records>>

\* LocationWriteSerializer.update, for a request without a "groups" key:
\* the groups of the location stay as they are.
UpdateLocation(id, parent, slug, name) ==
    LET inst == [parent |-> parent, slug |-> slug, name |-> name]
        errs == full_clean(locs, id, inst)
        r    == save(locs, id, Cleaned(inst))
    IN  /\ sv = Idle
        /\ IF errs = {}
           THEN /\ locs' = r.db
                /\ last' = Outcome("update", id, inst, RaisedErrors(r),
                                   Moved(locs, id, inst))
           ELSE /\ locs' = locs
                /\ last' = Outcome("update", id, inst, errs, FALSE)
        /\ UNCHANGED <<sv, access, records>>

Next ==
    \/ \E p \in {NULL} \cup Ids(locs), s \in SlugInputs, n \in NameInputs :
          CreateLocation(p, s, n)
    \/ \E i \in Ids(locs), p \in {NULL} \cup Ids(locs),
          s \in SlugInputs, n \in NameInputs :
          UpdateLocation(i, p, s, n)

Spec == Init /\ [][Next]_vars

\* ------------------------------------------------- save(), statement by statement
\* No transaction.atomic() surrounds Location.save and ATOMIC_REQUESTS is not
\* set, so every statement commits on its own and a reader may run between
\* any two of them.  sv.final is the table the whole call leaves behind.
BeginSave(id, inst) ==
    LET pk == IF id = NULL THEN Len(locs) + 1 ELSE id
    IN  /\ locs' = WriteRow(locs, id, inst)
        /\ sv' = [pc |-> "path", id |-> pk,
                  old_parent_id |-> IF id = NULL THEN NULL ELSE locs[id].parent,
                  old_slug |-> IF id = NULL THEN <<"None">> ELSE locs[id].slug,
                  stack |-> <<>>,
                  before |-> locs,
                  final |-> save(locs, id, inst).db]

\* LocationWriteSerializer.create up to super().save()
BeginCreate(parent, slug, name) ==
    LET inst == [parent |-> parent, slug |-> slug, name |-> name]
        errs == full_clean(locs, NULL, inst)
    IN  /\ Len(locs) < NumLocs
        /\ sv = Idle
        /\ IF errs = {}
           THEN /\ BeginSave(NULL, Cleaned(inst))
                /\ last' = Outcome("create", Len(locs) + 1, inst, {}, TRUE)
           ELSE /\ UNCHANGED <<locs, sv>>
                /\ last' = Outcome("create", NULL, inst, errs, FALSE)
        /\ locGroups' = [x \in Ids(locs') |->
                            IF x \in Ids(locs) THEN locGroups[x] ELSE {}]
        /\ UNCHANGED <<members, admins, assets, ports, ifaces, call, records>>

\* LocationWriteSerializer.update up to super().save()
BeginUpdate(id, parent, slug, name) ==
    LET inst == [parent |-> parent, slug |-> slug, name |-> name]
        errs == full_clean(locs, id, inst)
    IN  /\ sv = Idle
        /\ IF errs = {}
           THEN /\ BeginSave(id, Cleaned(inst))
                /\ last' = Outcome("update", id, inst, {},
                                   Moved(locs, id, inst))
           ELSE /\ UNCHANGED <<locs, sv>>
                /\ last' = Outcome("update", id, inst, errs, FALSE)
        /\ UNCHANGED <<access, records>>

\* Location.save after super().save(): the node's own path_cache
WritePath ==
    /\ sv.pc = "path"
    /\ LET pk == sv.id
           new_path == _compute_path_cache(locs, pk)
           path_changed == new_path # locs[pk].path_cache
       IN  /\ locs' = IF path_changed
                      THEN [locs EXCEPT ![pk].path_cache = new_path]
                      ELSE locs
           /\ IF path_changed \/ sv.old_parent_id # locs[pk].parent
                              \/ sv.old_slug # locs[pk].slug
              THEN sv' = [sv EXCEPT !.pc = "cascade",
                             !.stack = << [path |-> new_path,
                                           kids |-> Children(locs, pk)] >>]
              ELSE sv' = Idle
    /\ UNCHANGED <<last, access, records>>

\* One child of Location._rebuild_descendant_paths
CascadeStep ==
    /\ sv.pc = "cascade"
    /\ IF sv.stack = <<>> \/ RecursionExceeded(locs, sv.stack)
       THEN /\ sv' = Idle
            /\ UNCHANGED locs
       ELSE /\ locs' = CascadeDb(locs, sv.stack)
            /\ sv' = [sv EXCEPT !.stack = CascadeStack(locs, sv.stack)]
    /\ UNCHANGED <<last, access, records>>

NextSave ==
    \/ \E p \in {NULL} \cup Ids(locs), s \in SlugInputs, n \in NameInputs :
          BeginCreate(p, s, n)
    \/ \E i \in Ids(locs), p \in {NULL} \cup Ids(locs),
          s \in SlugInputs, n \in NameInputs :
          BeginUpdate(i, p, s, n)
    \/ WritePath
    \/ CascadeStep

SpecSave == Init /\ [][NextSave]_vars

\* ---------------------------------------------------- location tree properties
\* The strict descendants of id: the closure of the child relation.
RECURSIVE Closure(_, _)
Closure(db, S) ==
    LET T == S \cup {c \in Ids(db) : db[c].parent \in S}
    IN  IF T = S THEN S ELSE Closure(db, T)

Descendants(db, id) == Closure(db, {id}) \ {id}

Subtree(db, id) == Closure(db, {id})

SeqToSet(q) == {q[k] : k \in 1..Len(q)}

NoRepeat(q) == Cardinality(SeqToSet(q)) = Len(q)

ExpectedPath(db, id) == JoinSlugs(db, ancestor_chain(db, id))

PathsOf(db) == [x \in Ids(db) |-> db[x].path_cache]

AcceptedUpdate(r) == r.op = "update" /\ r.errors = {}

\* ------------------------------------------------------- access function calls
\* The access functions are pure: they are applied to tables drawn from the
\* bounded sets below and leave them as they are.
Rep(c, k) == [i \in 1..k |-> c]

\* A Location table of n rows with the given parents, as the saves of
\* CreateLocation leave it: sibling slugs and names differ, path_cache is
\* the joined path.
ForestRows(n, par) ==
    LET raw == [x \in 1..n |-> [parent |-> par[x], slug |-> Rep("a", x),
                                name |-> Rep("A", x), path_cache |-> <<>>]]
    IN  [x \in 1..n |-> [raw[x] EXCEPT !.path_cache = ExpectedPath(raw, x)]]

ParentMaps(n) ==
    {par \in [1..n -> 0..n] :
        \A x \in 1..n : \E k \in 1..n :
            LET up[j \in 0..k] == IF j = 0 THEN x
                                  ELSE IF up[j - 1] = NULL THEN NULL
                                  ELSE par[up[j - 1]]
            IN  up[k] = NULL}

\* Asset rows as AssetCreateSerializer.create leaves them when the request
\* names neither type nor status: the defaults, and no port or interface.
AssetRows ==
    [owner : {NULL} \cup UserIds, groups : SUBSET Groups,
     asset_type : {"COMPUTER"}, status : {"ACTIVE"}, location : {NULL}]

\* Asset and membership tables with no location ...
InitAssetTables ==
    /\ locs = <<>>
    /\ locGroups = <<>>
    /\ members \in [Groups -> SUBSET UserIds]
    /\ admins \in [Groups -> SUBSET UserIds]
    /\ \E n \in 0..NumAssets : assets \in [1..n -> AssetRows]
    /\ ports = <<>>
    /\ ifaces = <<>>

\* ... or a Location forest with its groups, the memberships and no asset.
InitLocationTables ==
    /\ \E n \in 0..NumLocs :
          /\ \E par \in ParentMaps(n) : locs = ForestRows(n, par)
          /\ locGroups \in [1..n -> SUBSET Groups]
    /\ members \in [Groups -> SUBSET UserIds]
    /\ admins \in [Groups -> SUBSET UserIds]
    /\ assets = <<>>
    /\ ports = <<>>
    /\ ifaces = <<>>

InitAccess ==
    /\ InitAssetTables \/ InitLocationTables
    /\ last = NoRequest
    /\ sv = Idle
    /\ call = NoCall
    /\ ips = <<>>
    /\ guests = <<>>
    /\ runs = <<>>
    /\ inflight = <<>>

Returned(fn, u, a, out) == [fn |-> fn, user |-> u, asset |-> a, out |-> out]

CallVisibleAssets(u) ==
    /\ call' = Returned("visible_assets_for_user", u, NULL,
                        visible_assets_for_user(u))
    /\ UNCHANGED <<locs, last, sv, members, admins, assets, ports, ifaces, locGroups, records>>

CallCanViewAsset(u, a) ==
    /\ call' = Returned("can_view_asset", u, a, can_view_asset(u, a))
    /\ UNCHANGED <<locs, last, sv, members, admins, assets, ports, ifaces, locGroups, records>>

CallCanEditAsset(u, a) ==
    /\ call' = Returned("can_edit_asset", u, a, can_edit_asset(u, a))
    /\ UNCHANGED <<locs, last, sv, members, admins, assets, ports, ifaces, locGroups, records>>

CallVisibleTo(u) ==
    /\ call' = Returned("visible_to", u, NULL, visible_to(u))
    /\ UNCHANGED <<locs, last, sv, members, admins, assets, ports, ifaces, locGroups, records>>

CallEditableBy(u) ==
    /\ call' = Returned("editable_by", u, NULL, editable_by(u))
    /\ UNCHANGED <<locs, last, sv, members, admins, assets, ports, ifaces, locGroups, records>>

CallAssignableLocationIds(u) ==
    /\ call' = Returned("assignable_location_ids_for_user", u, NULL,
                        assignable_location_ids_for_user(u))
    /\ UNCHANGED <<locs, last, sv, members, admins, assets, ports, ifaces, locGroups, records>>

CallVisibleLocationIds(u) ==
    /\ call' = Returned("visible_location_ids_for_user", u, NULL,
                        visible_location_ids_for_user(u))
    /\ UNCHANGED <<locs, last, sv, members, admins, assets, ports, ifaces, locGroups, records>>

NextAccess ==
    \/ \E u \in Users : CallVisibleAssets(u)
    \/ \E u \in Users, a \in AssetIds : CallCanViewAsset(u, a)
    \/ \E u \in Users, a \in AssetIds : CallCanEditAsset(u, a)
    \/ \E u \in Users : CallAssignableLocationIds(u)
    \/ \E u \in Users : CallVisibleLocationIds(u)

SpecAccess == InitAccess /\ [][NextAccess]_vars

\* The two querysets of AssetQuerySet next to the functions of access.py
\* that answer the same questions.
NextPolicy ==
    \/ \E u \in Users : CallVisibleTo(u)
    \/ \E u \in Users : CallVisibleAssets(u)
    \/ \E u \in Users : CallEditableBy(u)
    \/ \E u \in Users, a \in AssetIds : CallCanEditAsset(u, a)

SpecPolicy == InitAccess /\ [][NextPolicy]_vars

\* ------------------------------------- the frontier expansions, turn by turn
\* call holds the locals of the running expansion: all_ids, frontier and
\* whether the while loop is still running or the function has returned.
\* The Location table here is any finite table, a corrupted one whose
\* parent pointers run in a circle included; a seed may name ids that no
\* row has.
SeedIds == 1..NumLocs

ExpandFns == {"_expand_descendant_location_ids", "_expand_ancestor_location_ids"}

InitExpand ==
    /\ \E n \in 0..NumLocs : \E par \in [1..n -> 0..n] : locs = ForestRows(n, par)
    /\ locGroups = [x \in Ids(locs) |-> {}]
    /\ members = [g \in Groups |-> {}]
    /\ admins = [g \in Groups |-> {}]
    /\ assets = <<>>
    /\ ports = <<>>
    /\ ifaces = <<>>
    /\ last = NoRequest
    /\ sv = Idle
    /\ call = NoCall
    /\ ips = <<>>
    /\ guests = <<>>
    /\ runs = <<>>
    /\ inflight = <<>>

Running == call.fn \in ExpandFns /\ call.pc = "while"

HasReturned == call.fn \in ExpandFns /\ call.pc = "return"

\* One turn of the while loop of _expand_descendant_location_ids that keeps
\* the ids it already has in the frontier.
DescendantIter_RevisitAll(all_ids, frontier) ==
    IF frontier = {} THEN [all_ids |-> all_ids, frontier |-> frontier, pc |-> "return"]
    ELSE LET child_ids == {c \in Ids(locs) : locs[c].parent \in frontier}
         IN  IF child_ids = {}
             THEN [all_ids |-> all_ids, frontier |-> frontier, pc |-> "return"]
             ELSE [all_ids |-> all_ids \cup child_ids, frontier |-> child_ids,
                   pc |-> "while"]

\* One turn of the while loop of _expand_descendant_location_ids
DescendantIter(all_ids, frontier) ==
    IF frontier = {} THEN [all_ids |-> all_ids, frontier |-> frontier, pc |-> "return"]
    ELSE LET child_ids == {c \in Ids(locs) : locs[c].parent \in frontier}
             new_ids == child_ids \ all_ids
         IN  IF new_ids = {}
             THEN [all_ids |-> all_ids, frontier |-> frontier, pc |-> "return"]
             ELSE [all_ids |-> all_ids \cup new_ids, frontier |-> new_ids,
                   pc |-> "while"]

\* One turn of the while loop of _expand_ancestor_location_ids
AncestorIter(all_ids, frontier) ==
    IF frontier = {} THEN [all_ids |-> all_ids, frontier |-> frontier, pc |-> "return"]
    ELSE LET new_ids == frontier \ all_ids
         IN  IF new_ids = {}
             THEN [all_ids |-> all_ids, frontier |-> frontier, pc |-> "return"]
             ELSE [all_ids |-> all_ids \cup new_ids, frontier |-> ParentIds(new_ids),
                   pc |-> "while"]

BeginExpandDescendants(seed_ids) ==
    /\ ~Running
    /\ call' = [fn |-> "_expand_descendant_location_ids", seed |-> seed_ids,
                all_ids |-> seed_ids, frontier |-> seed_ids, pc |-> "while"]
    /\ UNCHANGED <<locs, last, sv, members, admins, assets, ports, ifaces, locGroups, records>>

DescendantStep ==
    /\ Running
    /\ call.fn = "_expand_descendant_location_ids"
    /\ LET it == DescendantIter(call.all_ids, call.frontier)
       IN  call' = [call EXCEPT !.all_ids = it.all_ids,
                                !.frontier = it.frontier, !.pc = it.pc]
    /\ UNCHANGED <<locs, last, sv, members, admins, assets, ports, ifaces, locGroups, records>>

BeginExpandAncestors(seed_ids) ==
    /\ ~Running
    /\ call' = [fn |-> "_expand_ancestor_location_ids", seed |-> seed_ids,
                all_ids |-> {}, frontier |-> ParentIds(seed_ids), pc |-> "while"]
    /\ UNCHANGED <<locs, last, sv, members, admins, assets, ports, ifaces, locGroups, records>>

AncestorStep ==
    /\ Running
    /\ call.fn = "_expand_ancestor_location_ids"
    /\ LET it == AncestorIter(call.all_ids, call.frontier)
       IN  call' = [call EXCEPT !.all_ids = it.all_ids,
                                !.frontier = it.frontier, !.pc = it.pc]
    /\ UNCHANGED <<locs, last, sv, members, admins, assets, ports, ifaces, locGroups, records>>

NextExpand ==
    \/ \E seed_ids \in SUBSET SeedIds : BeginExpandDescendants(seed_ids)
    \/ DescendantStep
    \/ \E seed_ids \in SUBSET SeedIds : BeginExpandAncestors(seed_ids)
    \/ AncestorStep

SpecExpand == InitExpand /\ [][NextExpand]_vars

\* A function that was called runs on: each turn of its loop is taken.
SpecExpandLive ==
    /\ InitExpand
    /\ [][NextExpand]_vars
    /\ WF_vars(DescendantStep)
    /\ WF_vars(AncestorStep)

\* ------------------------------------------- asset and interface endpoints
\* Requests carry a status (assets) or a mac_address (interfaces) and no
\* query parameter.  No IPAddress row exists in these worlds and no request
\* names a network or an address.
StatusChoices == {"ACTIVE", "STORED", "SPARE", "RETIRED", "DISCARDED", "LOST"}

StatusInputs == {"RETIRED", "BROKEN"}

HexDigits == {"0", "1", "a", "b", "A", "B"}

MacUpper ==
    <<"A", "A", "-", "B", "B", "-", "0", "0", "-", "0", "0", "-", "0", "0", "-", "0", "1">>

MacLower ==
    <<"a", "a", ":", "b", "b", ":", "0", "0", ":", "0", "0", ":", "0", "0", ":", "0", "1">>

MacInputs == {MacUpper, MacLower, <<"a", "a">>}

MAC_ADDRESS_RE(value) ==
    /\ Len(value) = 17
    /\ \A i \in 1..17 : IF i % 3 = 0 THEN value[i] \in {":", "-"}
                        ELSE value[i] \in HexDigits

\* TRUE when validate_mac raises nothing
validate_mac(value) == MAC_ADDRESS_RE(value)

normalize_mac(value) ==
    [i \in 1..Len(value) |-> IF Lower(value[i]) = "-" THEN ":" ELSE Lower(value[i])]

\* mac_address NULL; no request here sends the empty string.
NoMac == <<>>

\* One anonymous caller beside the authenticated ones.
ApiUsers == {u \in Users : u.is_authenticated \/ (u.id = NULL /\ ~u.is_superuser)}

\* The groups of the endpoint tests: the user administers the first group
\* and is a plain member of every other one.
FixtureAdmins == [g \in Groups |-> IF g = 1 THEN UserIds ELSE {}]

FixtureMembers == [g \in Groups |-> IF g = 1 THEN {} ELSE UserIds]

\* Computers created through the model, each with the LAN port and the lan
\* interface that ensure_default_asset_connectivity gave it.
InitApi ==
    /\ locs = <<>>
    /\ locGroups = <<>>
    /\ members = FixtureMembers
    /\ admins = FixtureAdmins
    /\ assets \in [1..NumAssets -> AssetRows]
    /\ ports = [a \in 1..NumAssets |->
                   [asset |-> a, name |-> "LAN", port_kind |-> "RJ45", active |-> TRUE]]
    /\ ifaces = [a \in 1..NumAssets |->
                    [asset |-> a, port |-> a, identifier |-> "lan",
                     mac_address |-> NoMac, active |-> TRUE]]
    /\ last = NoRequest
    /\ sv = Idle
    /\ call = NoCall
    /\ ips = <<>>
    /\ guests = <<>>
    /\ runs = <<>>
    /\ inflight = <<>>

\* AssetObjectPermission.has_object_permission, obj being an Asset
has_object_permission(method, u, a) ==
    IF method \in {"GET", "HEAD", "OPTIONS"} THEN can_view_asset(u, a)
    ELSE can_edit_asset(u, a)

\* NetworkInterfaceViewSet.get_queryset without query parameters
VisibleInterfaceIds(u) ==
    {i \in 1..Len(ifaces) : ifaces[i].asset \in visible_assets_for_user(u)}

\* NetworkInterfaceUpdateSerializer.is_valid on the table tbl: the validators
\* of mac_address (format, then uniqueness of the value as sent) and
\* validate(): data.keys are the keys sent beside mac_address, data.clear_ip
\* is attrs.get("clear_ip", False); network and address are never sent.
InterfaceIsValid(tbl, pk, data) ==
    LET ip_keys == {"network", "address", "ip_status", "hostname", "clear_ip"}
        has_ip_change == data.keys \cap ip_keys # {}
    IN  /\ validate_mac(data.mac_address)
        /\ \A j \in 1..Len(tbl) : j # pk => tbl[j].mac_address # data.mac_address
        /\ ~(has_ip_change /\ ~data.clear_ip)

\* NetworkInterfaceUpdateSerializer.update: full_clean() normalises the
\* address and checks its uniqueness again, then save(); with clear_ip the
\* active IP addresses of the interface, none here, are deactivated.
InterfaceUpdate(tbl, pk, data) ==
    LET mac == normalize_mac(data.mac_address)
    IN  IF \E j \in 1..Len(tbl) : j # pk /\ tbl[j].mac_address = mac
        THEN [ok |-> FALSE, ifaces |-> tbl]
        ELSE [ok |-> TRUE, ifaces |-> [tbl EXCEPT ![pk].mac_address = mac]]

\* PATCH /api/assets/{pk}/ with {"status": status}.  UpdateModelMixin.update:
\* get_object() (the queryset, then AssetObjectPermission), is_valid(),
\* perform_update() (get_object() and can_edit_asset again), save().
\* TokenAuthentication comes first, so an anonymous request gets 401.
PatchAssetStatus(u, pk, status) ==
    IF ~u.is_authenticated THEN 401
    ELSE IF pk \notin visible_assets_for_user(u) THEN 404
    ELSE IF ~has_object_permission("PATCH", u, pk) THEN 403
    ELSE IF status \notin StatusChoices THEN 400
    ELSE IF ~can_edit_asset(u, pk) THEN 403
    ELSE 200

PatchAsset(u, pk, status) ==
    LET code == PatchAssetStatus(u, pk, status)
    IN  /\ sv = Idle
        /\ assets' = IF code = 200 THEN [assets EXCEPT ![pk].status = status]
                     ELSE assets
        /\ last' = [op |-> "patch_asset", user |-> u, id |-> pk,
                    data |-> status, status |-> code]
        /\ UNCHANGED <<locs, sv, members, admins, ports, ifaces, locGroups, call, records>>

\* PATCH /api/interfaces/{pk}/ with {"mac_address": mac}.  The view set has
\* IsAuthenticated only: get_object() (the queryset), is_valid(),
\* perform_update() (can_edit_asset of the interface's asset), save().
PatchInterfaceResult(u, pk, mac) ==
    LET data == [mac_address |-> mac, keys |-> {}, clear_ip |-> FALSE]
        r    == InterfaceUpdate(ifaces, pk, data)
    IN  IF ~u.is_authenticated THEN [status |-> 401, ifaces |-> ifaces]
        ELSE IF pk \notin VisibleInterfaceIds(u) THEN [status |-> 404, ifaces |-> ifaces]
        ELSE IF ~InterfaceIsValid(ifaces, pk, data) THEN [status |-> 400, ifaces |-> ifaces]
        ELSE IF ~can_edit_asset(u, ifaces[pk].asset) THEN [status |-> 403, ifaces |-> ifaces]
        ELSE IF ~r.ok THEN [status |-> 400, ifaces |-> ifaces]
        ELSE [status |-> 200, ifaces |-> r.ifaces]

PatchInterface(u, pk, mac) ==
    LET r == PatchInterfaceResult(u, pk, mac)
    IN  /\ sv = Idle
        /\ ifaces' = r.ifaces
        /\ last' = [op |-> "patch_interface", user |-> u, id |-> pk,
                    data |-> mac, status |-> r.status]
        /\ UNCHANGED <<locs, sv, members, admins, assets, ports, locGroups, call, records>>

\* Ids a request may name: the rows and one id that no row has.
AssetPks == 1..(NumAssets + 1)

NextPatch ==
    \/ \E u \in ApiUsers, pk \in AssetPks, status \in StatusInputs :
          PatchAsset(u, pk, status)
    \/ \E u \in ApiUsers, pk \in AssetPks, mac \in MacInputs :
          PatchInterface(u, pk, mac)

SpecPatch == InitApi /\ [][NextPatch]_vars

\* ------------------------------------------------------------ bulk updates
\* One result of a bulk update: the index of the row, the id it names,
\* success and the key of the error.
RowResult(index, id, success, errors) ==
    [row |-> index, id |-> id, success |-> success, errors |-> errors]

\* serializers.empty: the key is not in the request.
Absent == -1

\* The row as AssetUpdateSerializer.update writes it: the status, and the
\* location when the row carries a null.
BulkAssetWrite(tbl, row) ==
    [tbl EXCEPT ![row.id].status = row.status,
                ![row.id].location = IF row.location = NULL THEN NULL ELSE @]

\* One row of BulkAssetUpdateAPIView.post that leaves out the edit check.
BulkAssetRow_NoEditCheck(u, tbl, row) ==
    IF row.status \notin StatusChoices
    THEN [success |-> FALSE, errors |-> "status", assets |-> tbl]
    ELSE IF row.location \notin {Absent, NULL} \cup Ids(locs)
    THEN [success |-> FALSE, errors |-> "location", assets |-> tbl]
    ELSE IF row.id \notin visible_assets_for_user(u)
    THEN [success |-> FALSE, errors |-> "id", assets |-> tbl]
    ELSE IF row.location \notin {Absent, NULL}
    THEN [success |-> FALSE, errors |-> "location", assets |-> tbl]
    ELSE [success |-> TRUE, errors |-> "", assets |-> BulkAssetWrite(tbl, row)]

\* One row of BulkAssetUpdateAPIView.post: BulkAssetRowSerializer, the
\* lookup among the visible assets, can_edit_asset, AssetUpdateSerializer.
\* The rows change no owner and no group, so the two access functions
\* answer on tbl as they do on assets.  BulkAssetRowSerializer turns a
\* location id into the Location (an id no row has fails there); the view
\* hands that instance to AssetUpdateSerializer as data, whose
\* PrimaryKeyRelatedField refuses it ("Incorrect type. Expected pk value"),
\* so that a row with a location that is not null fails on location.
BulkAssetRow(u, tbl, row) ==
    IF row.status \notin StatusChoices
    THEN [success |-> FALSE, errors |-> "status", assets |-> tbl]
    ELSE IF row.location \notin {Absent, NULL} \cup Ids(locs)
    THEN [success |-> FALSE, errors |-> "location", assets |-> tbl]
    ELSE IF row.id \notin visible_assets_for_user(u)
    THEN [success |-> FALSE, errors |-> "id", assets |-> tbl]
    ELSE IF ~can_edit_asset(u, row.id)
    THEN [success |-> FALSE, errors |-> "permission", assets |-> tbl]
    ELSE IF row.location \notin {Absent, NULL}
    THEN [success |-> FALSE, errors |-> "location", assets |-> tbl]
    ELSE [success |-> TRUE, errors |-> "", assets |-> BulkAssetWrite(tbl, row)]

\* The for loop of BulkAssetUpdateAPIView.post
RECURSIVE BulkAssetRows(_, _, _, _, _)
BulkAssetRows(u, tbl, rows, index, results) ==
    IF rows = <<>> THEN [assets |-> tbl, results |-> results]
    ELSE LET r == BulkAssetRow(u, tbl, Head(rows))
         IN  BulkAssetRows(u, r.assets, Tail(rows), index + 1,
                 Append(results, RowResult(index, Head(rows).id, r.success, r.errors)))

\* One row of BulkInterfaceUpdateAPIView.post.  clear_ip has default=False,
\* so it is always among the validated keys: a row without network and
\* address passes BulkInterfaceRowSerializer.validate only with clear_ip.
BulkInterfaceRow(u, tbl, row) ==
    LET data == [mac_address |-> row.mac_address, keys |-> {"clear_ip"},
                 clear_ip |-> row.clear_ip]
        r    == InterfaceUpdate(tbl, row.id, data)
    IN  IF ~row.clear_ip
        THEN [success |-> FALSE, errors |-> "address", ifaces |-> tbl]
        ELSE IF row.id \notin VisibleInterfaceIds(u)
        THEN [success |-> FALSE, errors |-> "id", ifaces |-> tbl]
        ELSE IF ~can_edit_asset(u, tbl[row.id].asset)
        THEN [success |-> FALSE, errors |-> "permission", ifaces |-> tbl]
        ELSE IF ~InterfaceIsValid(tbl, row.id, data)
        THEN [success |-> FALSE, errors |-> "mac_address", ifaces |-> tbl]
        ELSE IF ~r.ok
        THEN [success |-> FALSE, errors |-> "mac_address", ifaces |-> tbl]
        ELSE [success |-> TRUE, errors |-> "", ifaces |-> r.ifaces]

\* The for loop of BulkInterfaceUpdateAPIView.post
RECURSIVE BulkInterfaceRows(_, _, _, _, _)
BulkInterfaceRows(u, tbl, rows, index, results) ==
    IF rows = <<>> THEN [ifaces |-> tbl, results |-> results]
    ELSE LET r == BulkInterfaceRow(u, tbl, Head(rows))
         IN  BulkInterfaceRows(u, r.ifaces, Tail(rows), index + 1,
                 Append(results, RowResult(index, Head(rows).id, r.success, r.errors)))

\* status.HTTP_207_MULTI_STATUS if has_errors else status.HTTP_200_OK
BulkStatus(results) ==
    IF \E i \in 1..Len(results) : ~results[i].success THEN 207 ELSE 200

\* POST /api/assets/bulk_update/ with {"rows": rows}.  IsAuthenticated
\* lets post() run for authenticated users only.
BulkAssetUpdate(u, rows) ==
    LET r == BulkAssetRows(u, assets, rows, 0, <<>>)
    IN  /\ sv = Idle
        /\ u.is_authenticated
        /\ assets' = r.assets
        /\ last' = [op |-> "bulk_assets", user |-> u, rows |-> rows,
                    status |-> BulkStatus(r.results), results |-> r.results]
        /\ UNCHANGED <<locs, sv, members, admins, ports, ifaces, locGroups, call, records>>

\* POST /api/interfaces/bulk_update/ with {"rows": rows}.  IsAuthenticated
\* lets post() run for authenticated users only.
BulkInterfaceUpdate(u, rows) ==
    LET r == BulkInterfaceRows(u, ifaces, rows, 0, <<>>)
    IN  /\ sv = Idle
        /\ u.is_authenticated
        /\ ifaces' = r.ifaces
        /\ last' = [op |-> "bulk_interfaces", user |-> u, rows |-> rows,
                    status |-> BulkStatus(r.results), results |-> r.results]
        /\ UNCHANGED <<locs, sv, members, admins, assets, ports, locGroups, call, records>>

\* Rows with a payload that validates, one for every id, and one row with
\* a payload that does not.
BulkAssetRowInputs ==
    [id : AssetPks, status : {"RETIRED"}, location : {Absent}]
        \cup {[id |-> NumAssets, status |-> "BROKEN", location |-> Absent]}

BulkInterfaceRowInputs ==
    [id : AssetPks, mac_address : {MacUpper}, clear_ip : {TRUE}]
        \cup {[id |-> NumAssets, mac_address |-> MacUpper, clear_ip |-> FALSE]}

\* The lists of at most NumRows rows over the set S.
RowLists(S) == UNION {[1..n -> S] : n \in 0..NumRows}

NextBulk ==
    \/ \E u \in Users, rows \in RowLists(BulkAssetRowInputs) :
          BulkAssetUpdate(u, rows)
    \/ \E u \in Users, rows \in RowLists(BulkInterfaceRowInputs) :
          BulkInterfaceUpdate(u, rows)

SpecBulk == InitApi /\ [][NextBulk]_vars

\* ------------------------------------------ default port and interface
AssetTypeInputs == {"COMPUTER", "NOTEBOOK"}

\* Port.objects.get_or_create(asset=asset, name=name, defaults={"port_kind": kind})
PortGetOrCreate(tbl, asset, name, kind) ==
    LET found == {i \in 1..Len(tbl) : tbl[i].asset = asset /\ tbl[i].name = name}
    IN  IF found # {}
        THEN [tbl |-> tbl, id |-> CHOOSE i \in found : TRUE]
        ELSE [tbl |-> Append(tbl, [asset |-> asset, name |-> name,
                                   port_kind |-> kind, active |-> TRUE]),
              id |-> Len(tbl) + 1]

\* NetworkInterface.objects.get_or_create(asset=asset, identifier=identifier,
\*                                        defaults={"port": port})
InterfaceGetOrCreate(tbl, asset, identifier, port) ==
    LET found == {i \in 1..Len(tbl) :
                     tbl[i].asset = asset /\ tbl[i].identifier = identifier}
    IN  IF found # {}
        THEN [tbl |-> tbl, id |-> CHOOSE i \in found : TRUE]
        ELSE [tbl |-> Append(tbl, [asset |-> asset, port |-> port,
                                   identifier |-> identifier,
                                   mac_address |-> NoMac, active |-> TRUE]),
              id |-> Len(tbl) + 1]

\* A post_save receiver that does not look at created.
ensure_default_asset_connectivity_EverySave(instance, asset_type, created, skip) ==
    IF asset_type # "COMPUTER" \/ skip
    THEN [ports |-> ports, ifaces |-> ifaces]
    ELSE LET p  == PortGetOrCreate(ports, instance, "LAN", "RJ45")
             i  == InterfaceGetOrCreate(ifaces, instance, "lan", p.id)
         IN  [ports |-> [p.tbl EXCEPT ![p.id].active = TRUE],
              ifaces |-> [i.tbl EXCEPT ![i.id].active = TRUE]]

\* The post_save receiver of Asset; skip is _skip_default_connectivity.
\* The tables it returns are those of the committed transaction.
ensure_default_asset_connectivity(instance, asset_type, created, skip) ==
    IF asset_type # "COMPUTER" \/ ~created
    THEN [ports |-> ports, ifaces |-> ifaces]
    ELSE IF skip
    THEN [ports |-> ports, ifaces |-> ifaces]
    ELSE LET p  == PortGetOrCreate(ports, instance, "LAN", "RJ45")
             p1 == IF ~p.tbl[p.id].active
                   THEN [p.tbl EXCEPT ![p.id].active = TRUE] ELSE p.tbl
             i  == InterfaceGetOrCreate(ifaces, instance, "lan", p.id)
             i1 == IF ~i.tbl[i.id].active
                   THEN [i.tbl EXCEPT ![i.id].active = TRUE] ELSE i.tbl
             i2 == IF i1[i.id].port = NULL
                   THEN [i1 EXCEPT ![i.id].port = p.id] ELSE i1
         IN  [ports |-> p1, ifaces |-> i2]

\* The save of a new Asset: Asset.objects.create(...) through the model, or
\* AssetCreateSerializer.create, which sets _skip_default_connectivity.
CreateAsset(owner, asset_type, skip) ==
    LET pk == Len(assets) + 1
        r  == ensure_default_asset_connectivity(pk, asset_type, TRUE, skip)
    IN  /\ Len(assets) < NumAssets
        /\ sv = Idle
        /\ assets' = Append(assets, [owner |-> owner, groups |-> {},
                                     asset_type |-> asset_type, status |-> "ACTIVE",
                                     location |-> NULL])
        /\ ports' = r.ports
        /\ ifaces' = r.ifaces
        /\ last' = [op |-> "create_asset", id |-> pk, asset_type |-> asset_type,
                    skip |-> skip]
        /\ UNCHANGED <<locs, sv, members, admins, locGroups, call, records>>

\* The save of an existing Asset with another type or status.
SaveAsset(pk, asset_type, status) ==
    LET r == ensure_default_asset_connectivity(pk, asset_type, FALSE, FALSE)
    IN  /\ sv = Idle
        /\ assets' = [assets EXCEPT ![pk].asset_type = asset_type,
                                    ![pk].status = status]
        /\ ports' = r.ports
        /\ ifaces' = r.ifaces
        /\ last' = [op |-> "save_asset", id |-> pk, asset_type |-> asset_type,
                    skip |-> FALSE]
        /\ UNCHANGED <<locs, sv, members, admins, locGroups, call, records>>

NextConnectivity ==
    \/ \E owner \in {NULL} \cup UserIds, t \in AssetTypeInputs, skip \in BOOLEAN :
          CreateAsset(owner, t, skip)
    \/ \E pk \in AssetIds, t \in AssetTypeInputs, status \in {"ACTIVE", "RETIRED"} :
          SaveAsset(pk, t, status)

SpecConnectivity == Init /\ [][NextConnectivity]_vars

\* ------------------------------------------------ interface IP addresses
\* An IPv4 address is an integer of AddrBits bits; a CIDR is a base address
\* and a prefix length.  ipaddress.IPv4Network(cidr, strict=False) masks the
\* host bits of the base.
AddrBits == 3

Networks ==
    << [cidr |-> [base |-> 0, prefixlen |-> 1]],
       [cidr |-> [base |-> 5, prefixlen |-> 1]] >>

NetworkIds == 1..Len(Networks)

AddressInputs == {1, 2, 5}

RECURSIVE Pow2(_)
Pow2(n) == IF n = 0 THEN 1 ELSE 2 * Pow2(n - 1)

\* ip_address in ipaddress.IPv4Network(cidr, strict=False)
InNetwork(address, cidr) ==
    LET hosts == Pow2(AddrBits - cidr.prefixlen)
    IN  (address % Pow2(AddrBits)) \div hosts = (cidr.base % Pow2(AddrBits)) \div hosts

\* An IPAddress.clean() that only checks the address against the CIDR.
IPAddress_clean_NoDuplicateCheck(tbl, pk, rec) ==
    IF ~InNetwork(rec.address, Networks[rec.network].cidr) THEN {"address"} ELSE {}

\* IPAddress.clean: the keys of the errors it raises.  pk is NULL for a
\* record that is not stored yet.
IPAddress_clean(tbl, pk, rec) ==
    LET duplicate == {j \in 1..Len(tbl) :
                         /\ tbl[j].network = rec.network
                         /\ tbl[j].assigned_interface = rec.assigned_interface
                         /\ tbl[j].active
                         /\ j # pk}
    IN  (IF ~InNetwork(rec.address, Networks[rec.network].cidr)
         THEN {"address"} ELSE {})
        \cup (IF rec.assigned_interface # NULL /\ rec.active /\ duplicate # {}
              THEN {"assigned_interface"} ELSE {})

\* IPAddress.full_clean: clean(), then uniq_network_ip_address unless one
\* of its fields already failed.
IPAddress_full_clean(tbl, pk, rec) ==
    LET e1 == IPAddress_clean(tbl, pk, rec)
        taken == \E j \in 1..Len(tbl) :
                     /\ j # pk
                     /\ tbl[j].network = rec.network
                     /\ tbl[j].address = rec.address
    IN  e1 \cup (IF "address" \notin e1 /\ "network" \notin e1 /\ taken
                 THEN {"__all__"} ELSE {})

\* What a request sends about the IP: data.keys are the keys present,
\* data.network, data.address and data.clear_ip their values (read only
\* when the key is present; NULL is a JSON null).
IpRequests ==
    {d \in [keys : SUBSET {"network", "address", "clear_ip"},
            network : {NULL} \cup NetworkIds,
            address : AddressInputs,
            clear_ip : BOOLEAN] :
        /\ "network" \notin d.keys => d.network = NULL
        /\ "address" \notin d.keys => d.address = 1
        /\ "clear_ip" \notin d.keys => ~d.clear_ip}

\* NetworkInterfaceUpdateSerializer.validate, the IP keys: TRUE when it
\* raises nothing.
InterfaceValidate(data) ==
    LET clear_ip == "clear_ip" \in data.keys /\ data.clear_ip
        has_network == "network" \in data.keys /\ data.network # NULL
        has_address == "address" \in data.keys
        has_ip_change == data.keys # {}
    IN  ~(has_ip_change /\ ~clear_ip /\ ~(has_network /\ has_address))

MinOf(S) == CHOOSE x \in S : \A y \in S : x <= y

\* NetworkInterfaceUpdateSerializer.update after instance.save(): the rows
\* of the IPAddress table are written one statement after the other with no
\* transaction around them, so what was written before a ValidationError
\* stays written.
IpUpdate(tbl, instance, data) ==
    LET clear_ip == "clear_ip" \in data.keys /\ data.clear_ip
        active_ips == {j \in 1..Len(tbl) :
                          tbl[j].assigned_interface = instance /\ tbl[j].active}
        in_network == {j \in active_ips : tbl[j].network = data.network}
        cleared == IF "network" \in data.keys /\ data.network # NULL
                   THEN in_network ELSE active_ips
        current_ip == IF in_network = {} THEN NULL ELSE MinOf(in_network)
        deactivated == IF current_ip # NULL
                       THEN [tbl EXCEPT ![current_ip].active = FALSE] ELSE tbl
        ip_record == [network |-> data.network, address |-> data.address,
                      assigned_interface |-> instance, active |-> TRUE]
    IN  IF clear_ip
        THEN [errors |-> {},
              ips |-> [j \in 1..Len(tbl) |->
                          IF j \in cleared THEN [tbl[j] EXCEPT !.active = FALSE]
                          ELSE tbl[j]]]
        ELSE IF "network" \notin data.keys \/ "address" \notin data.keys
        THEN [errors |-> {}, ips |-> tbl]
        ELSE IF current_ip # NULL /\ tbl[current_ip].address = data.address
        THEN [errors |-> IPAddress_full_clean(tbl, current_ip, tbl[current_ip]),
              ips |-> tbl]
        ELSE LET errs == IPAddress_full_clean(deactivated, NULL, ip_record)
             IN  IF errs # {} THEN [errors |-> errs, ips |-> deactivated]
                 ELSE [errors |-> {}, ips |-> Append(deactivated, ip_record)]

\* serializer = NetworkInterfaceUpdateSerializer(interface, data, partial=True);
\* is_valid(); save().  The request names no field of the interface itself.
UpdateInterfaceIp(pk, data) ==
    LET r == IpUpdate(ips, pk, data)
    IN  /\ sv = Idle
        /\ IF ~InterfaceValidate(data)
           THEN /\ ips' = ips
                /\ last' = [op |-> "update_interface_ip", id |-> pk,
                            data |-> data, errors |-> {"address"}]
           ELSE /\ ips' = r.ips
                /\ last' = [op |-> "update_interface_ip", id |-> pk,
                            data |-> data, errors |-> r.errors]
        /\ UNCHANGED <<locs, sv, members, admins, assets, ports, ifaces, locGroups,
                       call, guests, runs, inflight>>

\* second = IPAddress(network, address, assigned_interface, active=True);
\* second.full_clean(); second.save()
NewIPAddress(network, address, interface) ==
    LET rec  == [network |-> network, address |-> address,
                 assigned_interface |-> interface, active |-> TRUE]
        errs == IPAddress_full_clean(ips, NULL, rec)
    IN  /\ sv = Idle
        /\ ips' = IF errs = {} THEN Append(ips, rec) ELSE ips
        /\ last' = [op |-> "new_ip", id |-> interface,
                    data |-> [keys |-> {"network", "address"}, network |-> network,
                              address |-> address, clear_ip |-> FALSE],
                    errors |-> errs]
        /\ UNCHANGED <<locs, sv, members, admins, assets, ports, ifaces, locGroups,
                       call, guests, runs, inflight>>

NextIp ==
    \/ \E pk \in 1..Len(ifaces), data \in IpRequests : UpdateInterfaceIp(pk, data)
    \/ \E n \in NetworkIds, a \in AddressInputs, i \in 1..Len(ifaces) :
          NewIPAddress(n, a, i)

\* The computers of InitApi, without owner and group: the serializer is
\* applied to the interface directly and reads neither.
InitIp ==
    /\ InitApi
    /\ \A a \in 1..NumAssets : assets[a].owner = NULL /\ assets[a].groups = {}

SpecIp == InitIp /\ [][NextIp]_vars

\* --------------------------------------------------------- guest requests
NumGuests == 2

MaxInflight == 2

\* The accounts of the system: the callers and one user who never calls.
SystemUserIds == 1..(NumUsers + 1)

ApprovalStatus == {"PENDING", "APPROVED", "REJECTED", "DISABLED"}

\* timezone.now()
Now == 1

ReasonInputs == {<<>>, <<" ", "n", "o", " ">>}

\* str.strip()
RECURSIVE strip(_)
strip(s) ==
    IF s = <<>> THEN <<>>
    ELSE IF Head(s) = " " THEN strip(Tail(s))
    ELSE IF s[Len(s)] = " " THEN strip(SubSeq(s, 1, Len(s) - 1))
    ELSE s

\* GuestSelfRegistrationSerializer.create: the record as it is saved
NewGuest(responsible_user) ==
    [sponsor |-> responsible_user, approval_status |-> "PENDING",
     enabled |-> FALSE, approved_by |-> NULL, approved_at |-> NULL,
     rejected_reason |-> <<>>]

\* POST /api/guests/register/ (AllowAny) with a payload whose other fields
\* validate.  responsible is the active user the responsible_email names,
\* NULL when there is none; an authenticated caller is the sponsor.
SelfRegister(u, responsible) ==
    LET responsible_user == IF u.is_authenticated THEN u.id ELSE responsible
    IN  /\ sv = Idle
        /\ Len(guests) < NumGuests
        /\ IF responsible_user = NULL
           THEN /\ guests' = guests
                /\ last' = [op |-> "register", user |-> u, id |-> NULL, status |-> 400]
           ELSE /\ guests' = Append(guests, NewGuest(responsible_user))
                /\ last' = [op |-> "register", user |-> u, id |-> Len(guests) + 1,
                            status |-> 201]
        /\ UNCHANGED <<locs, sv, members, admins, assets, ports, ifaces, locGroups,
                       call, ips, runs, inflight>>

\* A decision check that lets every authenticated user decide.
DecisionCheck_NoSponsorCheck(tbl, u, pk) ==
    IF ~u.is_authenticated THEN "unauthenticated"
    ELSE IF pk \notin 1..Len(tbl) THEN "not_found"
    ELSE IF tbl[pk].approval_status # "PENDING" THEN "not_pending"
    ELSE "ok"

\* A decision check that does not look at the status of the request.
DecisionCheck_NoPendingCheck(tbl, u, pk) ==
    IF ~u.is_authenticated THEN "unauthenticated"
    ELSE IF pk \notin 1..Len(tbl) THEN "not_found"
    ELSE IF ~u.is_superuser /\ tbl[pk].sponsor # u.id THEN "permission_denied"
    ELSE "ok"

\* The checks of GuestApproveAPIView.post, GuestRejectAPIView.post,
\* GuestApproveView.post and GuestRejectView.post, in their order, on the
\* record as get_object_or_404 read it.
DecisionCheck(tbl, u, pk) ==
    IF ~u.is_authenticated THEN "unauthenticated"
    ELSE IF pk \notin 1..Len(tbl) THEN "not_found"
    ELSE IF ~u.is_superuser /\ tbl[pk].sponsor # u.id THEN "permission_denied"
    ELSE IF tbl[pk].approval_status # "PENDING" THEN "not_pending"
    ELSE "ok"

\* What the caller gets: the API views answer with a status code, the web
\* views redirect to the login page or back to the list with a message.
DecisionStatus(channel, outcome) ==
    IF channel = "api"
    THEN CASE outcome = "unauthenticated" -> 401
           [] outcome = "not_found" -> 404
           [] outcome = "permission_denied" -> 403
           [] outcome = "not_pending" -> 400
           [] OTHER -> 200
    ELSE CASE outcome = "not_found" -> 404
           [] outcome = "permission_denied" -> 403
           [] OTHER -> 302

\* guest.save(update_fields=[...]): the listed fields of the instance are
\* written, the others stay as the row has them.
DecisionWrite(tbl, req) ==
    IF req.op = "approve"
    THEN [tbl EXCEPT ![req.id].approval_status = "APPROVED",
                     ![req.id].enabled = TRUE,
                     ![req.id].approved_by = req.user.id,
                     ![req.id].approved_at = Now,
                     ![req.id].rejected_reason = <<>>]
    ELSE [tbl EXCEPT ![req.id].approval_status = "REJECTED",
                     ![req.id].enabled = FALSE,
                     ![req.id].rejected_reason = strip(req.reason)]

DecisionRequest(op, channel, u, pk, reason) ==
    [op |-> op, channel |-> channel, user |-> u, id |-> pk, reason |-> reason]

Decided(req, outcome) ==
    [op |-> req.op, channel |-> req.channel, user |-> req.user, id |-> req.id,
     reason |-> req.reason, outcome |-> outcome,
     status |-> DecisionStatus(req.channel, outcome)]

\* An approve or a reject from the request to the response, alone.
Decide(op, channel, u, pk, reason) ==
    LET req == DecisionRequest(op, channel, u, pk, reason)
        outcome == DecisionCheck(guests, u, pk)
    IN  /\ sv = Idle
        /\ inflight = <<>>
        /\ guests' = IF outcome = "ok" THEN DecisionWrite(guests, req) ELSE guests
        /\ last' = Decided(req, outcome)
        /\ UNCHANGED <<locs, sv, members, admins, assets, ports, ifaces, locGroups,
                       call, ips, runs, inflight>>

DecisionOps == {"approve", "reject"}

Channels == {"api", "web"}

GuestPks == 1..(NumGuests + 1)

NextGuest ==
    \/ \E u \in ApiUsers, responsible \in {NULL} \cup SystemUserIds :
          SelfRegister(u, responsible)
    \/ \E op \in DecisionOps, channel \in Channels, u \in ApiUsers,
          pk \in GuestPks, reason \in ReasonInputs :
          Decide(op, channel, u, pk, reason)

SpecGuest == Init /\ [][NextGuest]_vars

\* Guest records as the admin site and the forms can leave them, in every
\* approval status.
GuestRows ==
    {g \in [sponsor : SystemUserIds, approval_status : ApprovalStatus,
            enabled : BOOLEAN, approved_by : {NULL, NumUsers + 1},
            approved_at : {NULL, Now}, rejected_reason : {<<>>}] :
        (g.approved_by = NULL) <=> (g.approved_at = NULL)}

InitGuestTables ==
    /\ locs = <<>>
    /\ last = NoRequest
    /\ sv = Idle
    /\ members = [g \in Groups |-> {}]
    /\ admins = [g \in Groups |-> {}]
    /\ assets = <<>>
    /\ ports = <<>>
    /\ ifaces = <<>>
    /\ locGroups = <<>>
    /\ call = NoCall
    /\ ips = <<>>
    /\ guests \in [1..NumGuests -> GuestRows]
    /\ runs = <<>>
    /\ inflight = <<>>

NextDecide ==
    \E op \in DecisionOps, channel \in Channels, u \in ApiUsers,
       pk \in GuestPks, reason \in ReasonInputs :
       Decide(op, channel, u, pk, reason)

SpecGuestDecide == InitGuestTables /\ [][NextDecide]_vars

\* --------------------------------- guest decisions, statement by statement
\* The views read the record, check it and save it in separate statements
\* with no transaction and no row lock, so another request may run between
\* the read and the save.  inflight holds the requests that passed the
\* checks and have not saved yet.
RemoveAt(q, i) == [k \in 1..(Len(q) - 1) |-> IF k < i THEN q[k] ELSE q[k + 1]]

BeginDecision(op, channel, u, pk, reason) ==
    LET req == DecisionRequest(op, channel, u, pk, reason)
        outcome == DecisionCheck(guests, u, pk)
    IN  /\ sv = Idle
        /\ Len(inflight) < MaxInflight
        /\ IF outcome = "ok"
           THEN /\ inflight' = Append(inflight, req)
                /\ last' = Decided(req, "checked")
           ELSE /\ inflight' = inflight
                /\ last' = Decided(req, outcome)
        /\ UNCHANGED <<locs, sv, members, admins, assets, ports, ifaces, locGroups,
                       call, ips, guests, runs>>

SaveDecision(i) ==
    LET req == inflight[i]
    IN  /\ guests' = DecisionWrite(guests, req)
        /\ inflight' = RemoveAt(inflight, i)
        /\ last' = Decided(req, "ok")
        /\ UNCHANGED <<locs, sv, members, admins, assets, ports, ifaces, locGroups,
                       call, ips, runs>>

NextGuestRace ==
    \/ \E u \in ApiUsers, responsible \in {NULL} \cup SystemUserIds :
          SelfRegister(u, responsible)
    \/ \E op \in DecisionOps, channel \in Channels, u \in ApiUsers,
          pk \in GuestPks, reason \in ReasonInputs :
          BeginDecision(op, channel, u, pk, reason)
    \/ \E i \in 1..Len(inflight) : SaveDecision(i)

SpecGuestRace == Init /\ [][NextGuestRace]_vars

\* --------------------------------------------------------------- task runs
NumRuns == 2

\* The names register_task has put into TASK_REGISTRY of the web process.
TASK_REGISTRY == {"sync_users_from_o365", "sync_devices_from_o365"}

\* The Django-Q worker is another process with a TASK_REGISTRY of its own: a
\* worker of an older release lacks the task that was registered last.
WorkerRegistry == {"sync_users_from_o365"}

TaskNameInputs == TASK_REGISTRY \cup {"unknown_task"}

\* What entry["func"](**kwargs) does: it returns a dict, returns something
\* else, or raises an Exception.
TaskOutcomes == {"returns_dict", "returns_other", "raises"}

TerminalStatus == {"SUCCESS", "FAILED"}

RunIds == 1..Len(runs)

\* TaskRun.objects.create(task_name=..., status=...)
NewRun(task_name, status) ==
    [task_name |-> task_name, status |-> status, finished_at |-> NULL,
     result_data |-> "{}"]

\* A try block without the except clause: the exception leaves the function
\* and the finally clause saves the status as it was.
AfterTask_NoExcept(run, outcome) ==
    IF outcome = "raises" THEN [run EXCEPT !.finished_at = Now]
    ELSE [run EXCEPT !.status = "SUCCESS",
                     !.result_data = IF outcome = "returns_dict" THEN "result" ELSE "{}",
                     !.finished_at = Now]

\* try / except Exception / finally of execute_task_in_background and of
\* run_task_with_capture: the fields task_run.save(update_fields=[...]) writes
AfterTask(run, outcome) ==
    IF outcome = "raises"
    THEN [run EXCEPT !.status = "FAILED", !.result_data = "error",
                     !.finished_at = Now]
    ELSE [run EXCEPT !.status = "SUCCESS",
                     !.result_data = IF outcome = "returns_dict" THEN "result" ELSE "{}",
                     !.finished_at = Now]

\* The jobs of the run r that have started and not ended
JobsOf(r) == {i \in 1..Len(inflight) : inflight[i].task_run_id = r}

\* enqueue_task(task_name): the record, then async_task(...)
EnqueueTask(task_name) ==
    /\ sv = Idle
    /\ Len(runs) < NumRuns
    /\ IF task_name \notin TASK_REGISTRY
       THEN /\ UNCHANGED <<runs, inflight>>
            /\ last' = [op |-> "enqueue_task", task_name |-> task_name,
                        id |-> NULL, raised |-> "ValueError"]
       ELSE /\ runs' = Append(runs, NewRun(task_name, "PENDING"))
            /\ inflight' = Append(inflight,
                               [fn |-> "execute_task_in_background",
                                task_run_id |-> Len(runs) + 1,
                                task_name |-> task_name, pc |-> "queued"])
            /\ last' = [op |-> "enqueue_task", task_name |-> task_name,
                        id |-> Len(runs) + 1, raised |-> "none"]
    /\ UNCHANGED <<locs, sv, members, admins, assets, ports, ifaces, locGroups,
                   call, ips, guests>>

\* run_task_with_capture(task_name) up to the call of the task function
BeginRunTask(task_name) ==
    /\ sv = Idle
    /\ Len(runs) < NumRuns
    /\ IF task_name \notin TASK_REGISTRY
       THEN /\ UNCHANGED <<runs, inflight>>
            /\ last' = [op |-> "run_task_with_capture", task_name |-> task_name,
                        id |-> NULL, raised |-> "ValueError"]
       ELSE /\ runs' = Append(runs, NewRun(task_name, "RUNNING"))
            /\ inflight' = Append(inflight,
                               [fn |-> "run_task_with_capture",
                                task_run_id |-> Len(runs) + 1,
                                task_name |-> task_name, pc |-> "running"])
            /\ last' = [op |-> "run_task_with_capture", task_name |-> task_name,
                        id |-> Len(runs) + 1, raised |-> "none"]
    /\ UNCHANGED <<locs, sv, members, admins, assets, ports, ifaces, locGroups,
                   call, ips, guests>>

\* execute_task_in_background(task_run_id, task_name) up to the call of the
\* task function: the registry lookup, then status RUNNING.
WorkerStart(r) ==
    /\ \E i \in JobsOf(r) :
          /\ inflight[i].pc = "queued"
          /\ IF inflight[i].task_name \notin WorkerRegistry
             THEN /\ runs' = [runs EXCEPT ![r].status = "FAILED",
                                          ![r].result_data = "error",
                                          ![r].finished_at = Now]
                  /\ inflight' = RemoveAt(inflight, i)
             ELSE /\ runs' = [runs EXCEPT ![r].status = "RUNNING"]
                  /\ inflight' = [inflight EXCEPT ![i].pc = "running"]
          /\ last' = [op |-> "worker_start", task_name |-> inflight[i].task_name,
                      id |-> r, raised |-> "none"]
    /\ UNCHANGED <<locs, sv, members, admins, assets, ports, ifaces, locGroups,
                   call, ips, guests>>

\* The task function ends and the finally clause saves the run.
TaskEnds(r, outcome) ==
    /\ \E i \in JobsOf(r) :
          /\ inflight[i].pc = "running"
          /\ runs' = [runs EXCEPT ![r] = AfterTask(runs[r], outcome)]
          /\ inflight' = RemoveAt(inflight, i)
          /\ last' = [op |-> "task_ends", task_name |-> inflight[i].task_name,
                      id |-> r,
                      raised |-> IF AfterTask(runs[r], outcome).status \in TerminalStatus
                                 THEN "none" ELSE "Exception"]
    /\ UNCHANGED <<locs, sv, members, admins, assets, ports, ifaces, locGroups,
                   call, ips, guests>>

NextTasks ==
    \/ \E task_name \in TaskNameInputs : EnqueueTask(task_name)
    \/ \E task_name \in TaskNameInputs : BeginRunTask(task_name)
    \/ \E r \in RunIds : WorkerStart(r)
    \/ \E r \in RunIds, outcome \in TaskOutcomes : TaskEnds(r, outcome)

SpecTasks == Init /\ [][NextTasks]_vars

\* The cluster takes every queued job and every task function ends.
SpecTasksLive ==
    /\ Init
    /\ [][NextTasks]_vars
    /\ \A r \in 1..NumRuns : WF_vars(WorkerStart(r))
    /\ \A r \in 1..NumRuns : WF_vars(\E outcome \in TaskOutcomes : TaskEnds(r, outcome))

\* ------------------------------------------------- the location of an asset
\* The locations a request may name: none, every row and one id no row has.
LocationInputs == {NULL} \cup (1..(NumLocs + 1))

GroupInputs == {{}} \cup {{g} : g \in Groups}

\* AssetCreateSerializer.is_valid with the request in the context: the key
\* of the error, "" when there is none.  The location field resolves the id
\* first; validate() reads a missing location as None.
AssetCreateErrors(u, groups, location) ==
    IF location # NULL /\ location \notin Ids(locs) THEN "location"
    ELSE IF ~u.is_superuser /\ asset_admin_groups(u) = {} THEN "detail"
    ELSE IF ~u.is_superuser /\ groups = {} THEN "groups"
    ELSE IF ~u.is_superuser /\ ~(groups \subseteq asset_admin_groups(u)) THEN "groups"
    ELSE IF /\ location # NULL
            /\ ~u.is_superuser
            /\ location \notin assignable_location_ids_for_user(u)
    THEN "location"
    ELSE ""

\* POST /api/assets/ with {"groups": groups, "location": location} and the
\* other fields valid.  AssetObjectPermission.has_permission, is_valid(),
\* AssetCreateSerializer.create (no default port or interface).
ApiCreateAsset(u, groups, location) ==
    LET errors == AssetCreateErrors(u, groups, location)
        code   == IF ~u.is_authenticated THEN 401
                  ELSE IF errors # "" THEN 400 ELSE 201
    IN  /\ sv = Idle
        /\ Len(assets) < NumAssets
        /\ assets' = IF code = 201
                     THEN Append(assets, [owner |-> NULL, groups |-> groups,
                                          asset_type |-> "COMPUTER",
                                          status |-> "ACTIVE", location |-> location])
                     ELSE assets
        /\ last' = [op |-> "api_create_asset", user |-> u, id |-> Len(assets) + 1,
                    groups |-> groups, data |-> location, status |-> code,
                    errors |-> IF code = 400 THEN errors ELSE ""]
        /\ UNCHANGED <<locs, sv, members, admins, ports, ifaces, locGroups, call,
                       records>>

\* An AssetUpdateSerializer.validate without the check of the location.
AssetUpdateErrors_NoTreeCheck(u, location) ==
    IF location \notin {Absent, NULL} \cup Ids(locs) THEN "location" ELSE ""

\* AssetUpdateSerializer.is_valid for {"location": location} with the
\* request in the context: the key of the error, "" when there is none.
AssetUpdateErrors(u, location) ==
    IF location \notin {Absent, NULL} \cup Ids(locs) THEN "location"
    ELSE IF /\ location \notin {Absent, NULL}
            /\ u.is_authenticated
            /\ ~u.is_superuser
            /\ location \notin assignable_location_ids_for_user(u)
    THEN "location"
    ELSE ""

\* PATCH /api/assets/{pk}/ with {"location": location}: the steps of
\* PatchAssetStatus, is_valid() being that of the location.
PatchAssetLocationStatus(u, pk, location) ==
    IF ~u.is_authenticated THEN 401
    ELSE IF pk \notin visible_assets_for_user(u) THEN 404
    ELSE IF ~has_object_permission("PATCH", u, pk) THEN 403
    ELSE IF AssetUpdateErrors(u, location) # "" THEN 400
    ELSE IF ~can_edit_asset(u, pk) THEN 403
    ELSE 200

PatchAssetLocation(u, pk, location) ==
    LET code == PatchAssetLocationStatus(u, pk, location)
    IN  /\ sv = Idle
        /\ assets' = IF code = 200 THEN [assets EXCEPT ![pk].location = location]
                     ELSE assets
        /\ last' = [op |-> "patch_asset_location", user |-> u, id |-> pk,
                    data |-> location, status |-> code,
                    errors |-> IF code = 400 THEN AssetUpdateErrors(u, location)
                               ELSE ""]
        /\ UNCHANGED <<locs, sv, members, admins, ports, ifaces, locGroups, call,
                       records>>

\* Bulk rows that name the first asset and carry a location.
BulkLocationRowInputs ==
    [id : {1}, status : {"RETIRED"}, location : {NULL} \cup (1..NumLocs)]

\* Locations in pairs of a root and its child, each with no group or with
\* the first one (the fixture puts every user in every group); the groups of the endpoint tests; one asset of the group the user
\* administers, created through the API.
InitAssign ==
    /\ locs = ForestRows(NumLocs, [x \in 1..NumLocs |->
                                      IF x % 2 = 0 THEN x - 1 ELSE NULL])
    /\ locGroups \in [1..NumLocs -> {{}, {1}}]
    /\ members = FixtureMembers
    /\ admins = FixtureAdmins
    /\ assets = << [owner |-> NULL, groups |-> {1}, asset_type |-> "COMPUTER",
                    status |-> "ACTIVE", location |-> NULL] >>
    /\ ports = <<>>
    /\ ifaces = <<>>
    /\ last = NoRequest
    /\ sv = Idle
    /\ call = NoCall
    /\ ips = <<>>
    /\ guests = <<>>
    /\ runs = <<>>
    /\ inflight = <<>>

NextAssign ==
    \/ \E u \in ApiUsers, groups \in GroupInputs, location \in LocationInputs :
          ApiCreateAsset(u, groups, location)
    \/ \E u \in ApiUsers, pk \in AssetPks, location \in LocationInputs :
          PatchAssetLocation(u, pk, location)
    \/ \E u \in ApiUsers, rows \in RowLists(BulkLocationRowInputs) :
          BulkAssetUpdate(u, rows)

SpecAssign == InitAssign /\ [][NextAssign]_vars

\* ------------------------------------------- location moves, interleaved
\* LocationViewSet.perform_update runs in no transaction and takes no lock:
\* full_clean() reads the table as it is, save() writes later.  inflight
\* holds the instances that passed full_clean and are not yet saved.
MaxPathLen == 7

\* The instance of one request as get_object() loaded it, its parent set
\* by the serializer.
MoveInstance(id, parent) ==
    [id |-> id,
     inst |-> [parent |-> parent, slug |-> locs[id].slug, name |-> locs[id].name],
     path_cache |-> locs[id].path_cache]

\* LocationWriteSerializer.update up to instance.full_clean().  The paths a
\* cyclic table grows are capped by MaxPathLen.
BeginMove(id, parent) ==
    LET req  == MoveInstance(id, parent)
        errs == full_clean(locs, id, req.inst)
    IN  /\ sv = Idle
        /\ Len(inflight) < MaxInflight
        /\ \A x \in Ids(locs) : Len(locs[x].path_cache) <= MaxPathLen
        /\ inflight' = IF errs = {} THEN Append(inflight, req) ELSE inflight
        /\ last' = Outcome(IF errs = {} THEN "move_cleaned" ELSE "move",
                           id, req.inst, errs, FALSE)
        /\ UNCHANGED <<locs, sv, members, admins, assets, ports, ifaces, locGroups,
                       call, ips, guests, runs>>

\* instance.save() of a request that passed full_clean: the row is written
\* with the fields of the instance, path_cache as loaded included.
SaveMove(i) ==
    LET req == inflight[i]
        r   == save([locs EXCEPT ![req.id].path_cache = req.path_cache],
                    req.id, Cleaned(req.inst))
    IN  /\ sv = Idle
        /\ locs' = r.db
        /\ inflight' = RemoveAt(inflight, i)
        /\ last' = Outcome("move_saved", req.id, req.inst, RaisedErrors(r),
                           Moved(locs, req.id, req.inst))
        /\ UNCHANGED <<sv, members, admins, assets, ports, ifaces, locGroups,
                       call, ips, guests, runs>>

\* Every forest of NumLocs locations, no group, no asset.
InitMove ==
    /\ \E par \in ParentMaps(NumLocs) : locs = ForestRows(NumLocs, par)
    /\ locGroups = [x \in 1..NumLocs |-> {}]
    /\ last = NoRequest
    /\ sv = Idle
    /\ members = [g \in Groups |-> {}]
    /\ admins = [g \in Groups |-> {}]
    /\ assets = <<>>
    /\ ports = <<>>
    /\ ifaces = <<>>
    /\ call = NoCall
    /\ ips = <<>>
    /\ guests = <<>>
    /\ runs = <<>>
    /\ inflight = <<>>

NextMove ==
    \/ \E id \in Ids(locs), parent \in {NULL} \cup Ids(locs) : BeginMove(id, parent)
    \/ \E i \in 1..Len(inflight) : SaveMove(i)

SpecMove == InitMove /\ [][NextMove]_vars

\* ------------------------------------------------------------------ claims
\* C1: after every accepted create and move, walking the parent pointers
\* from any location ends at a root and visits no location twice.
C1_Acyclic ==
    \A id \in Ids(locs) :
        LET chain == ancestor_chain(locs, id)
        IN  /\ NoRepeat(chain)
            /\ locs[chain[1]].parent = NULL
            /\ chain[Len(chain)] = id

\* A location was moved under a parent that itself has a parent.
C1_Witness ==
    /\ AcceptedUpdate(last)
    /\ last.moved
    /\ last.parent # NULL
    /\ Len(ancestor_chain(locs, last.id)) = 3

\* C2: after every completed save, the path_cache of every location is the
\* "/"-join of the slugs of its ancestor chain, root first, own slug last.
C2_PathCacheCorrect ==
    \A id \in Ids(locs) : locs[id].path_cache = ExpectedPath(locs, id)

\* A location with a grandchild was moved or given another slug.
C2_Witness ==
    /\ AcceptedUpdate(last)
    /\ last.moved
    /\ \E g \in Descendants(locs, last.id) : locs[g].parent # last.id

\* C3 as stated: a move of a location under itself or under one of its
\* strict descendants is rejected with an error on the parent field and
\* changes no row.
C3_RejectedOnParent ==
    [][ (last'.op = "update" /\ last'.parent \in Subtree(locs, last'.id))
            => ("parent" \in last'.errors /\ locs' = locs) ]_vars

\* C3 as amended: such a move is rejected and changes no row; the error is
\* on the parent field unless the request has no slug and none can be
\* derived from the name, and then it is on the slug field and not on parent.
C3_Rejected ==
    [][ (last'.op = "update" /\ last'.parent \in Subtree(locs, last'.id))
            => /\ locs' = locs
               /\ IF last'.noslug
                  THEN "slug" \in last'.errors /\ "parent" \notin last'.errors
                  ELSE "parent" \in last'.errors ]_vars

\* A move under a strict descendant was rejected on the parent field.
C3_Witness ==
    /\ last.op = "update"
    /\ last.parent \in Descendants(locs, last.id)
    /\ "parent" \in last.errors

\* C4: no two locations with the same parent, NULL included, share a slug
\* or a name.
C4_SiblingsUnique ==
    \A x, y \in Ids(locs) :
        (x # y /\ locs[x].parent = locs[y].parent)
            => (locs[x].slug # locs[y].slug /\ locs[x].name # locs[y].name)

\* C5: an accepted update of a location leaves every row outside its
\* subtree as it was, changes nothing but path_cache in its descendants, and
\* leaves every path_cache of the subtree equal to the path of the new
\* ancestry.
C5_CascadeFrame ==
    [][ AcceptedUpdate(last')
            => LET sub == Subtree(locs', last'.id)
               IN  /\ Len(locs') = Len(locs)
                   /\ \A x \in Ids(locs) \ sub : locs'[x] = locs[x]
                   /\ \A x \in sub \ {last'.id} :
                         /\ locs'[x].parent = locs[x].parent
                         /\ locs'[x].slug = locs[x].slug
                         /\ locs'[x].name = locs[x].name
                   /\ \A x \in sub :
                         locs'[x].path_cache = ExpectedPath(locs', x) ]_vars

\* A location with a descendant was moved while another location lies
\* outside its subtree.
C5_Witness ==
    /\ AcceptedUpdate(last)
    /\ last.moved
    /\ Descendants(locs, last.id) # {}
    /\ Ids(locs) \ Subtree(locs, last.id) # {}

\* C6: an accepted save that changes neither the parent nor the slug of its
\* location changes no path_cache, and no parent or slug, anywhere.
C6_ResaveIdempotent ==
    [][ (AcceptedUpdate(last') /\ ~last'.moved)
            => /\ Len(locs') = Len(locs)
               /\ \A x \in Ids(locs) :
                     /\ locs'[x].path_cache = locs[x].path_cache
                     /\ locs'[x].parent = locs[x].parent
                     /\ locs'[x].slug = locs[x].slug ]_vars

\* A location with a descendant was saved again with its parent and slug.
C6_Witness ==
    /\ AcceptedUpdate(last)
    /\ ~last.moved
    /\ last.parent # NULL
    /\ Descendants(locs, last.id) # {}

\* C7: while a save is in progress a reader sees either the path_cache
\* values of before the save or those of after it, never a mixture.
C7_NoPartialCascade ==
    sv.pc # "idle"
        => \/ PathsOf(locs) = PathsOf(sv.final)
           \/ \A x \in Ids(sv.before) :
                 locs[x].path_cache = sv.before[x].path_cache

\* C8: an authenticated superuser gets every asset, every location id and
\* TRUE from both asset checks, whatever the groups and owners are.
C8_SuperuserSeesAll ==
    \A u \in Users :
        (u.is_authenticated /\ u.is_superuser)
            => /\ visible_assets_for_user(u) = AssetIds
               /\ visible_location_ids_for_user(u) = Ids(locs)
               /\ assignable_location_ids_for_user(u) = Ids(locs)
               /\ \A a \in AssetIds : can_view_asset(u, a) /\ can_edit_asset(u, a)
               /\ (call.fn # "none" /\ call.user = u)
                     => call.out = CASE call.fn = "visible_assets_for_user" -> AssetIds
                                     [] call.fn = "can_view_asset" -> TRUE
                                     [] call.fn = "can_edit_asset" -> TRUE
                                     [] OTHER -> Ids(locs)

\* A superuser who is in no group and owns nothing asked whether an asset
\* with a group may be edited, and was told yes.
C8_Witness ==
    /\ call.fn = "can_edit_asset"
    /\ call.user.is_authenticated /\ call.user.is_superuser
    /\ _group_ids_for_user(call.user) = {}
    /\ assets[call.asset].owner # call.user.id
    /\ assets[call.asset].groups # {}
    /\ call.out = TRUE

\* C9: an unauthenticated user gets no asset, no location id and FALSE
\* from both asset checks, whatever its id and superuser flag are.
C9_AnonymousSeesNothing ==
    \A u \in Users :
        ~u.is_authenticated
            => /\ visible_assets_for_user(u) = {}
               /\ visible_location_ids_for_user(u) = {}
               /\ assignable_location_ids_for_user(u) = {}
               /\ \A a \in AssetIds : ~can_view_asset(u, a) /\ ~can_edit_asset(u, a)
               /\ (call.fn # "none" /\ call.user = u)
                     => call.out = CASE call.fn = "can_view_asset" -> FALSE
                                     [] call.fn = "can_edit_asset" -> FALSE
                                     [] OTHER -> {}

\* An unauthenticated user with the superuser flag, whose id owns an asset
\* and administers its group, asked for the asset list and got nothing.
C9_Witness ==
    /\ call.fn = "visible_assets_for_user"
    /\ ~call.user.is_authenticated /\ call.user.is_superuser
    /\ \E a \in AssetIds :
          /\ assets[a].owner = call.user.id
          /\ \E g \in assets[a].groups : call.user.id \in admins[g]
    /\ call.out = {}

\* C10: whoever may edit an asset may view it.
C10_EditImpliesView ==
    \A u \in Users : \A a \in AssetIds :
        can_edit_asset(u, a) => can_view_asset(u, a)

\* A regular user who administers a group of an asset without being a
\* member of it or the owner was told the asset may be edited.
C10_Witness ==
    /\ call.fn = "can_edit_asset"
    /\ call.user.is_authenticated /\ ~call.user.is_superuser
    /\ assets[call.asset].owner # call.user.id
    /\ \A g \in assets[call.asset].groups : call.user.id \notin members[g]
    /\ call.out = TRUE

\* An authenticated user without the superuser flag.
Regular(u) == u.is_authenticated /\ ~u.is_superuser

OwnsOrAdministers(u, a) ==
    \/ assets[a].owner = u.id
    \/ \E g \in assets[a].groups : u.id \in admins[g]

\* C11: for a regular user can_view_asset is TRUE exactly when the user owns
\* the asset or administers one of its groups, and the asset list holds
\* exactly those assets; membership of a group alone shows nothing.
C11_ViewIffOwnerOrAdmin ==
    /\ \A u \in Users : Regular(u) =>
          /\ \A a \in AssetIds : can_view_asset(u, a) <=> OwnsOrAdministers(u, a)
          /\ visible_assets_for_user(u) = {a \in AssetIds : OwnsOrAdministers(u, a)}
    /\ (call.fn = "can_view_asset" /\ Regular(call.user))
          => call.out = OwnsOrAdministers(call.user, call.asset)
    /\ (call.fn = "visible_assets_for_user" /\ Regular(call.user))
          => call.out = {a \in AssetIds : OwnsOrAdministers(call.user, a)}

\* A regular user who is a plain member of a group of one asset and the
\* owner of another asked for the asset list and got the second only.
C11_Witness ==
    /\ call.fn = "visible_assets_for_user"
    /\ Regular(call.user)
    /\ \E a, b \in AssetIds :
          /\ \E g \in assets[a].groups : call.user.id \in members[g]
          /\ ~OwnsOrAdministers(call.user, a)
          /\ assets[b].owner = call.user.id
          /\ call.out = {b}

\* C12: for a regular user can_edit_asset is TRUE exactly when the user
\* administers one of the asset's groups; an owner who administers none of
\* them may view the asset and may not edit it.
C12_EditIffAdmin ==
    /\ \A u \in Users : Regular(u) => \A a \in AssetIds :
          /\ can_edit_asset(u, a)
                <=> \E g \in assets[a].groups : u.id \in admins[g]
          /\ (assets[a].owner = u.id
                /\ \A g \in assets[a].groups : u.id \notin admins[g])
                => can_view_asset(u, a) /\ ~can_edit_asset(u, a)
    /\ (call.fn = "can_edit_asset" /\ Regular(call.user))
          => call.out = (\E g \in assets[call.asset].groups :
                            call.user.id \in admins[g])

\* The owner of an asset, a plain member of its group and admin of another
\* group, was told the asset may not be edited.
C12_Witness ==
    /\ call.fn = "can_edit_asset"
    /\ Regular(call.user)
    /\ assets[call.asset].owner = call.user.id
    /\ \E g \in assets[call.asset].groups : call.user.id \in members[g]
    /\ _group_ids_for_user(call.user) # assets[call.asset].groups
    /\ \E g \in Groups : call.user.id \in admins[g]
    /\ call.out = FALSE

\* The k-th location above x in db, NULL above a root.
RECURSIVE UpK(_, _, _)
UpK(db, x, k) ==
    IF k = 0 THEN x
    ELSE IF UpK(db, x, k - 1) = NULL THEN NULL
    ELSE db[UpK(db, x, k - 1)].parent

\* x is in S or below a location of S.
InOrBelow(db, x, S) == \E k \in 0..Len(db) : UpK(db, x, k) \in S

\* x is strictly above a location of S.
Above(db, x, S) == \E y \in S \cap Ids(db) : \E k \in 1..Len(db) : UpK(db, y, k) = x

\* The locations that carry a group the user is a member or an admin of.
Tagged(u) ==
    {x \in Ids(locs) :
        \E g \in locGroups[x] : u.id \in members[g] \/ u.id \in admins[g]}

Assignable(u) == {x \in Ids(locs) : InOrBelow(locs, x, Tagged(u))}

\* C13: for a regular user assignable_location_ids_for_user is exactly the
\* locations tagged with a group the user is a member or an admin of and
\* everything below them; it is empty when the user has no group or no
\* location carries one of the user's groups.
C13_AssignableIsTaggedSubtrees ==
    /\ \A u \in Users : Regular(u) =>
          /\ assignable_location_ids_for_user(u) = Assignable(u)
          /\ (_group_ids_for_user(u) = {} \/ Tagged(u) = {})
                => assignable_location_ids_for_user(u) = {}
    /\ (call.fn = "assignable_location_ids_for_user" /\ Regular(call.user))
          => call.out = Assignable(call.user)

\* A regular user who is only a member of the one group that tags one
\* location got that location, its untagged child and its untagged
\* grandchild.
C13_Witness ==
    /\ call.fn = "assignable_location_ids_for_user"
    /\ Regular(call.user)
    /\ \A g \in Groups : call.user.id \notin admins[g]
    /\ \E x \in Ids(locs) :
          /\ Tagged(call.user) = {x}
          /\ \E y \in call.out : UpK(locs, y, 2) = x
          /\ Cardinality(call.out) = 3

\* C14: for a regular user visible_location_ids_for_user is the assignable
\* set united with every location above one of its members, so assignable
\* is a subset of visible, and a location above a tagged one that is in no
\* tagged subtree is visible and not assignable.
C14_VisibleIsAssignablePlusAncestors ==
    /\ \A u \in Users : Regular(u) =>
          /\ visible_location_ids_for_user(u)
                = assignable_location_ids_for_user(u)
                  \cup {x \in Ids(locs) :
                           Above(locs, x, assignable_location_ids_for_user(u))}
          /\ assignable_location_ids_for_user(u)
                \subseteq visible_location_ids_for_user(u)
          /\ \A x \in Ids(locs) :
                (Above(locs, x, Tagged(u)) /\ ~InOrBelow(locs, x, Tagged(u)))
                   => /\ x \in visible_location_ids_for_user(u)
                      /\ x \notin assignable_location_ids_for_user(u)
    /\ (call.fn = "visible_location_ids_for_user" /\ Regular(call.user))
          => call.out = Assignable(call.user)
                        \cup {x \in Ids(locs) : Above(locs, x, Assignable(call.user))}

\* A regular user whose group tags a grandchild only got the grandchild, its
\* parent and the root, the last two not being assignable.
C14_Witness ==
    /\ call.fn = "visible_location_ids_for_user"
    /\ Regular(call.user)
    /\ \E x \in Tagged(call.user) :
          /\ Tagged(call.user) = {x}
          /\ UpK(locs, x, 2) \in call.out
          /\ UpK(locs, x, 1) \notin assignable_location_ids_for_user(call.user)
          /\ UpK(locs, x, 2) \notin assignable_location_ids_for_user(call.user)

\* Every walk up the parent pointers of db ends above a root.
Acyclic(db) == \A x \in Ids(db) : \E k \in 1..Len(db) : UpK(db, x, k) = NULL

\* C15: for every seed set S of existing ids, in any table,
\* _expand_descendant_location_ids(S) is exactly S and every location
\* reachable from S by child edges, and expanding the result again returns
\* the same set.
C15_DescendantsExactAndIdempotent ==
    /\ \A S \in SUBSET Ids(locs) :
          /\ _expand_descendant_location_ids(S)
                = {x \in Ids(locs) : InOrBelow(locs, x, S)}
          /\ _expand_descendant_location_ids(_expand_descendant_location_ids(S))
                = _expand_descendant_location_ids(S)
    /\ (HasReturned /\ call.fn = "_expand_descendant_location_ids"
           /\ call.seed \subseteq Ids(locs))
          => /\ call.all_ids = {x \in Ids(locs) : InOrBelow(locs, x, call.seed)}
             /\ call.all_ids = _expand_descendant_location_ids(call.seed)

\* The expansion of a root with a child and a grandchild returned all three.
C15_Witness ==
    /\ HasReturned
    /\ call.fn = "_expand_descendant_location_ids"
    /\ Acyclic(locs)
    /\ \E x, y \in Ids(locs) :
          /\ call.seed = {UpK(locs, x, 2)}
          /\ UpK(locs, x, 3) = NULL
          /\ y \notin call.seed /\ y # x
          /\ call.all_ids = {x, y} \cup call.seed

\* C16: in any finite table, one with a circle of parent pointers included,
\* a running expansion returns; a turn of either loop that finds no new id
\* is the last one and every other turn adds an id; and in a table without
\* a circle the upward expansion returns exactly the locations above the
\* seed, roots included.
C16_ExpansionsTerminate ==
    /\ Running ~> HasReturned
    /\ [][ Running =>
              IF call'.all_ids = call.all_ids
              THEN call'.pc = "return"
              ELSE call.all_ids \subseteq call'.all_ids /\ call'.pc = "while" ]_vars
    /\ [] ( (HasReturned /\ call.fn = "_expand_ancestor_location_ids"
                /\ Acyclic(locs))
               => /\ call.all_ids = {x \in Ids(locs) : Above(locs, x, call.seed)}
                  /\ \A x \in call.seed \cap Ids(locs) :
                        locs[x].parent # NULL
                           => \E r \in call.all_ids :
                                 locs[r].parent = NULL /\ InOrBelow(locs, x, {r}) )

\* In a table whose three locations are each other's parent in a circle,
\* the downward expansion of one of them returned all three.
C16_Witness ==
    /\ HasReturned
    /\ call.fn = "_expand_descendant_location_ids"
    /\ Len(locs) = 3
    /\ \A x \in Ids(locs) : locs[x].parent \notin {NULL, x}
    /\ ~Acyclic(locs)
    /\ Cardinality({locs[x].parent : x \in Ids(locs)}) = 3
    /\ Cardinality(call.seed) = 1
    /\ call.all_ids = Ids(locs)

\* C17: the downward expansion of a seed that names only ids no location
\* has returns the empty set.
C17_NonexistentSeedGivesEmpty ==
    (HasReturned /\ call.fn = "_expand_descendant_location_ids"
        /\ call.seed \cap Ids(locs) = {})
       => call.all_ids = {}

\* The asset a write request is about: the asset itself, or the asset of
\* the interface; NULL when the request names no row.
TargetAsset(r) ==
    IF r.op \in {"patch_asset", "bulk_assets"}
    THEN (IF r.id \in AssetIds THEN r.id ELSE NULL)
    ELSE (IF r.id \in 1..Len(ifaces) THEN ifaces[r.id].asset ELSE NULL)

\* The user sees the asset: a superuser, its owner or an admin of one of
\* its groups.
Sees(u, a) == a # NULL /\ (u.is_superuser \/ OwnsOrAdministers(u, a))

\* The user may edit the asset: a superuser or an admin of one of its groups.
Edits(u, a) ==
    /\ a # NULL
    /\ u.is_superuser \/ \E g \in assets[a].groups : u.id \in admins[g]

\* C18: for an authenticated user a PATCH of an asset or of an interface is
\* answered 404 when the asset is not visible to the user, 403 when it is
\* visible and not editable, and 200 with the change applied only when it
\* is editable; after 404 and 403 the asset and interface rows are as before.
C18_PatchOutcomes ==
    [][ (last'.op \in {"patch_asset", "patch_interface"}
            /\ last'.user.is_authenticated /\ last' # last)
           => LET u == last'.user
                  a == TargetAsset(last')
              IN  /\ ~Sees(u, a) => last'.status = 404
                  /\ (Sees(u, a) /\ ~Edits(u, a)) => last'.status = 403
                  /\ last'.status = 200 => Edits(u, a)
                  /\ last'.status \in {403, 404}
                        => assets' = assets /\ ifaces' = ifaces ]_vars

\* The last row of the bulk request r that succeeded on the record id.
LastApplied(r, id) ==
    LET S == {j \in 1..Len(r.rows) : r.results[j].success /\ r.rows[j].id = id}
    IN  CHOOSE j \in S : \A k \in S : k <= j

\* C19: a bulk update of assets or interfaces answers one result per row,
\* in the order of the rows; a row whose target does not exist, is not
\* visible or is not editable fails and its record stays as it was; every
\* row with an editable target and a payload that validates succeeds and is
\* applied whatever the other rows are; records that no successful row
\* names are unchanged; the status is 207 when a row failed, else 200.
C19_BulkRowsIndependent ==
    [][ (last'.op \in {"bulk_assets", "bulk_interfaces"} /\ last' # last)
           => LET r == last'
                  u == r.user
                  n == Len(r.rows)
                  OnAssets == r.op = "bulk_assets"
                  tblIds == IF OnAssets THEN AssetIds ELSE 1..Len(ifaces)
                  Same(id) == IF OnAssets THEN assets'[id] = assets[id]
                              ELSE ifaces'[id] = ifaces[id]
                  Target(i) == TargetAsset([op |-> r.op, id |-> r.rows[i].id])
                  Refused(i) == ~Sees(u, Target(i)) \/ ~Edits(u, Target(i))
                  Mac(i) == normalize_mac(r.rows[i].mac_address)
                  Clash(i) ==
                      \E j \in 1..Len(ifaces) :
                          /\ j # r.rows[i].id
                          /\ \/ ifaces[j].mac_address \in {Mac(i), r.rows[i].mac_address}
                             \/ \E k \in 1..(i - 1) :
                                   /\ r.results[k].success
                                   /\ r.rows[k].id = j
                                   /\ Mac(k) = Mac(i)
                  Valid(i) ==
                      IF OnAssets THEN r.rows[i].status \in StatusChoices
                      ELSE /\ r.rows[i].clear_ip
                           /\ validate_mac(r.rows[i].mac_address)
                           /\ ~Clash(i)
                  Applied(id) ==
                      IF OnAssets
                      THEN assets'[id].status = r.rows[LastApplied(r, id)].status
                      ELSE ifaces'[id].mac_address = Mac(LastApplied(r, id))
              IN  /\ Len(r.results) = n
                  /\ \A i \in 1..n :
                        /\ r.results[i].row = i - 1
                        /\ r.results[i].id = r.rows[i].id
                        /\ Refused(i)
                              => /\ ~r.results[i].success
                                 /\ r.rows[i].id \in tblIds => Same(r.rows[i].id)
                        /\ (~Refused(i) /\ Valid(i))
                              => r.results[i].success /\ Applied(r.rows[i].id)
                  /\ \A id \in tblIds :
                        (\A i \in 1..n : r.rows[i].id = id => ~r.results[i].success)
                           => Same(id)
                  /\ IF OnAssets THEN ifaces' = ifaces ELSE assets' = assets
                  /\ r.status = IF \E i \in 1..n : ~r.results[i].success
                                THEN 207 ELSE 200 ]_vars

\* A regular user sent two asset rows: the first names an asset the user
\* owns and may not edit, the second an asset of a group the user
\* administers; the first failed, the second was applied, the status is 207.
C19_Witness ==
    /\ last.op = "bulk_assets"
    /\ Regular(last.user)
    /\ Len(last.rows) = 2
    /\ last.rows[1].id \in AssetIds /\ last.rows[2].id \in AssetIds
    /\ assets[last.rows[1].id].owner = last.user.id
    /\ ~last.results[1].success /\ last.results[1].errors = "permission"
    /\ assets[last.rows[1].id].status = "ACTIVE"
    /\ last.results[2].success
    /\ assets[last.rows[2].id].status = "RETIRED"
    /\ last.status = 207

\* The asset has an active RJ45 port LAN and an active interface lan on
\* that port, in the tables ps and is.
HasDefaultConnectivity(ps, is, a) ==
    \E p \in 1..Len(ps) : \E i \in 1..Len(is) :
        /\ ps[p].asset = a /\ ps[p].name = "LAN"
        /\ ps[p].port_kind = "RJ45" /\ ps[p].active
        /\ is[i].asset = a /\ is[i].identifier = "lan"
        /\ is[i].active /\ is[i].port = p

\* C20: right after the creation of a COMPUTER asset without the
\* _skip_default_connectivity flag the asset has an active RJ45 port LAN and
\* an active interface lan on that port; the save of an existing asset and
\* the creation of an asset of another type add no port and no interface.
C20_DefaultConnectivity ==
    [][ /\ (last'.op = "create_asset"
              /\ last'.asset_type = "COMPUTER" /\ ~last'.skip)
           => HasDefaultConnectivity(ports', ifaces', last'.id)
        /\ ((last'.op = "create_asset" /\ last'.asset_type # "COMPUTER")
            \/ last'.op = "save_asset")
           => ports' = ports /\ ifaces' = ifaces ]_vars

\* A computer was created after a notebook and got port 1 and interface 1,
\* while the notebook has none.
C20_Witness ==
    /\ last.op = "create_asset" /\ last.id = 2
    /\ last.asset_type = "COMPUTER" /\ ~last.skip
    /\ assets[1].asset_type = "NOTEBOOK"
    /\ Len(ports) = 1 /\ Len(ifaces) = 1
    /\ HasDefaultConnectivity(ports, ifaces, 2)
    /\ ~HasDefaultConnectivity(ports, ifaces, 1)

ActiveIps(tbl, interface, network) ==
    {j \in 1..Len(tbl) : /\ tbl[j].assigned_interface = interface
                         /\ tbl[j].network = network
                         /\ tbl[j].active}

OneActiveIp(tbl) ==
    \A i \in 1..Len(ifaces), n \in NetworkIds : Cardinality(ActiveIps(tbl, i, n)) <= 1

\* C21: from a table in which every interface has at most one active IP in
\* each network, interface updates through the serializer and new IPAddress
\* records leave it so, and a new active IP for an interface that already
\* has an active one in that network is rejected with a ValidationError on
\* assigned_interface and not stored.
C21_OneActiveIpPerNetwork ==
    /\ [](OneActiveIp(ips))
    /\ [][(/\ last'.op = "new_ip"
           /\ ActiveIps(ips, last'.id, last'.data.network) # {})
          => (/\ "assigned_interface" \in last'.errors
              /\ ips' = ips)]_vars
    /\ [][(/\ last'.op = "update_interface_ip"
           /\ last'.errors = {}
           /\ last'.data.keys = {"network", "address"})
          => (\E j \in 1..Len(ips') :
                 /\ ActiveIps(ips', last'.id, last'.data.network) = {j}
                 /\ ips'[j].address = last'.data.address)]_vars

\* The address of an interface was changed: its old IP is stored inactive
\* beside the new active one, in the same network.
C21_Witness ==
    /\ last.op = "update_interface_ip"
    /\ last.errors = {}
    /\ ActiveIps(ips, last.id, last.data.network) # {}
    /\ \E j \in 1..Len(ips) : /\ ips[j].assigned_interface = last.id
                              /\ ips[j].network = last.data.network
                              /\ ~ips[j].active

\* C27: an interface update whose new IP record fails validation leaves the
\* IP that was active for that interface in that network active.
C27_RejectedUpdateKeepsActiveIp ==
    [][(/\ last'.op = "update_interface_ip"
        /\ last'.errors # {}
        /\ last'.data.keys = {"network", "address"})
       => (\A j \in ActiveIps(ips, last'.id, last'.data.network) :
              ips'[j].active)]_vars

GuestIds == 1..Len(guests)

\* build_dhcp_payload: the guests it exports are the enabled ones inside
\* their validity window; the window of every guest here contains now.
ExportedGuestIds == {g \in GuestIds : guests[g].enabled}

\* C22: a self-registered guest request starts PENDING and not enabled;
\* after any sequence of approve and reject calls a request is enabled, and
\* so exported, only if it is APPROVED, and it becomes APPROVED only by an
\* approve call of its sponsor or of a superuser.
C22_EnabledOnlyIfApproved ==
    /\ [](\A g \in ExportedGuestIds : guests[g].approval_status = "APPROVED")
    /\ [][(last'.op = "register" /\ last'.status = 201)
          => (/\ Len(guests') = Len(guests) + 1
              /\ guests'[last'.id].approval_status = "PENDING"
              /\ ~guests'[last'.id].enabled)]_vars
    /\ [][\A g \in 1..Len(guests') :
             (/\ guests'[g].approval_status = "APPROVED"
              /\ (g \in GuestIds => guests[g].approval_status # "APPROVED"))
             => (/\ g \in GuestIds
                 /\ guests[g].approval_status = "PENDING"
                 /\ last'.op = "approve"
                 /\ last'.id = g
                 /\ last'.user.is_authenticated
                 /\ (last'.user.is_superuser \/ last'.user.id = guests[g].sponsor))]_vars

\* A sponsor who is no superuser approved a request registered for them,
\* and another request was rejected.
C22_Witness ==
    /\ last.op = "approve"
    /\ last.outcome = "ok"
    /\ ~last.user.is_superuser
    /\ guests[last.id].enabled
    /\ \E g \in GuestIds : guests[g].approval_status = "REJECTED"

DecisionFields(g) ==
    <<g.approval_status, g.enabled, g.approved_by, g.approved_at, g.rejected_reason>>

Consistent(g) ==
    CASE g.approval_status = "APPROVED"
            -> g.enabled /\ g.approved_by # NULL /\ g.approved_at # NULL
      [] g.approval_status = "REJECTED"
            -> ~g.enabled /\ g.approved_by = NULL /\ g.approved_at = NULL
      [] OTHER -> TRUE

\* C30: when an approve and a reject of the same PENDING request interleave,
\* only the first decision is saved, on a record that is PENDING still, and
\* the record is APPROVED with enabled, approved_by and approved_at set or
\* REJECTED with enabled false and approved_by and approved_at not set.
C30_DecidedOnce ==
    /\ [](\A g \in GuestIds : Consistent(guests[g]))
    /\ [][(last'.op \in DecisionOps /\ last'.outcome = "ok")
          => guests[last'.id].approval_status = "PENDING"]_vars

StatusMoves ==
    {<<"PENDING", "RUNNING">>, <<"RUNNING", "SUCCESS">>, <<"RUNNING", "FAILED">>,
     <<"PENDING", "FAILED">>}

LocationBefore(a) == IF a <= Len(assets) THEN assets[a].location ELSE NULL

\* The user of the step is authenticated and no superuser.
RegularRequest == last'.user.is_authenticated /\ ~last'.user.is_superuser

\* C25: an authenticated non-superuser who creates or updates an asset
\* through the REST API (POST /api/assets/, PATCH /api/assets/{pk}/, a row
\* of the bulk update) sets the location of an asset only to none or to a
\* member of assignable_location_ids_for_user(user); a request that names
\* any other location and is acceptable but for its location is answered
\* with a validation error on the location field, and every stored
\* location is as it was.
C25_LocationOnlyAssignable ==
    [][ (last'.op \in {"api_create_asset", "patch_asset_location", "bulk_assets"}
            /\ RegularRequest)
        => LET u      == last'.user
               usable == {NULL} \cup assignable_location_ids_for_user(u)
           IN  /\ \A a \in 1..Len(assets') :
                     assets'[a].location # LocationBefore(a)
                        => assets'[a].location \in usable
               /\ (/\ last'.op = "api_create_asset"
                   /\ last'.data \notin usable
                   /\ AssetCreateErrors(u, last'.groups, NULL) = "")
                     => /\ last'.status = 400
                        /\ last'.errors = "location"
                        /\ assets' = assets
               /\ (/\ last'.op = "patch_asset_location"
                   /\ last'.data \notin usable
                   /\ PatchAssetLocationStatus(u, last'.id, NULL) = 200)
                     => /\ last'.status = 400
                        /\ last'.errors = "location"
                        /\ assets' = assets
               /\ last'.op = "bulk_assets"
                     => \A i \in 1..Len(last'.rows) :
                           (/\ last'.rows[i].location \notin usable
                            /\ can_edit_asset(u, last'.rows[i].id))
                              => /\ ~last'.results[i].success
                                 /\ last'.results[i].errors = "location"
      ]_vars

\* A user who administers a group was refused a location outside the
\* assignable ones for an asset that an earlier request had placed in an
\* assignable location below a location of the group.
C25_Witness ==
    /\ last.op = "patch_asset_location"
    /\ last.user.is_authenticated
    /\ ~last.user.is_superuser
    /\ last.status = 400
    /\ last.errors = "location"
    /\ last.data \in Ids(locs)
    /\ assets[last.id].location \in assignable_location_ids_for_user(last.user)
    /\ locGroups[assets[last.id].location] = {}

\* C26: one policy of asset visibility: for every user and every asset the
\* asset is a row of Asset.objects.visible_to(user) exactly when it is one
\* of visible_assets_for_user(user), and a row of
\* Asset.objects.editable_by(user) exactly when can_edit_asset(user, asset)
\* is TRUE.
C26_OnePolicy ==
    \A u \in Users : \A a \in AssetIds :
        /\ a \in visible_to(u) <=> a \in visible_assets_for_user(u)
        /\ a \in editable_by(u) <=> can_edit_asset(u, a)

\* C28: the asset list and the check of one asset agree: for every user,
\* anonymous, regular or superuser, and every asset, one with no owner or
\* with no group included, the asset is in visible_assets_for_user(user)
\* exactly when can_view_asset(user, asset) is TRUE; so do the values the two
\* functions returned.
C28_ListIffCheck ==
    /\ \A u \in Users : \A a \in AssetIds :
          a \in visible_assets_for_user(u) <=> can_view_asset(u, a)
    /\ call.fn = "can_view_asset"
          => call.out = (call.asset \in visible_assets_for_user(call.user))
    /\ call.fn = "visible_assets_for_user"
          => call.out = {a \in AssetIds : can_view_asset(call.user, a)}

\* A regular user asked for the asset list of a table that has an asset
\* with no owner and no group and an asset the user owns that has no group:
\* the list has the second and not the first.
C28_Witness ==
    /\ call.fn = "visible_assets_for_user"
    /\ call.user.is_authenticated
    /\ ~call.user.is_superuser
    /\ \E a, b \in AssetIds :
          /\ assets[a].owner = NULL
          /\ assets[a].groups = {}
          /\ a \notin call.out
          /\ assets[b].owner = call.user.id
          /\ assets[b].groups = {}
          /\ b \in call.out

\* C29: acyclicity survives interleaved moves: when location moves run
\* interleaved, each doing its cycle check (Location.clean) on the table it
\* read and writing (Location.save) in a later step, the parent relation
\* after the writes is acyclic.
C29_AcyclicUnderInterleaving == Acyclic(locs)

====
